---- MODULE Spec2Model ----
(***************************************************************************)
(* Model of the aimylabs news-to-X agent: the Dedup Store (storage.py),    *)
(* the publisher functions (publisher.py), strategy selection              *)
(* (content_strategy.py) and the run orchestrator (agent.py).              *)
(*                                                                         *)
(* Encodings.  A str is the sequence of its code points and a float the   *)
(* pair of integers that holds its binary64 value exactly.  Python None    *)
(* is NoneId (0) for tweet ids, UrlNone for result urls, the string        *)
(* "None" for error texts and the empty sequence for an article summary    *)
(* or an image prompt.                                                     *)
(***************************************************************************)
EXTENDS Integers, Sequences, FiniteSets, TLC

\* ---------------------------------------------------------------- bounds
NumUrls == 2
MaxArticles == 2
MaxCycles == 2
MaxDailyPosts == 2
NumTasks == 5
MaxTextLen == 8
NumTweetIds == 2

URLS == 1..NumUrls

\* ------------------------------------------------------- small utilities
Range(s) == {s[i] : i \in DOMAIN s}

Min(a, b) == IF a <= b THEN a ELSE b

\* ------------------------------------------------------------ storage.py
\* the posted table: a set of rows, url being the PRIMARY KEY
NoneId == 0

PostedRecord(url, tweet_id) == [url |-> url, tweet_id |-> tweet_id]

\* ensure_db: CREATE TABLE IF NOT EXISTS leaves existing rows alone
ensure_db(db) == db

\* a lookup that never finds the row
was_posted_never(db, url) == FALSE

was_posted(db, url) == \E r \in db : r.url = url

\* a write that is lost
mark_posted_lost(db, url, tweet_id) == db

\* a plain INSERT into a table without the primary key
mark_posted_insert(db, url, tweet_id) == db \cup {PostedRecord(url, tweet_id)}

\* INSERT OR REPLACE on the primary key url
mark_posted(db, url, tweet_id) ==
  {r \in db : r.url # url} \cup {PostedRecord(url, tweet_id)}

StoredUrls(db) == {r.url : r \in db}

\* ---------------------------------------------------------- publisher.py
NoClients == "None"
XClients == "XClients"

UrlNone == [base |-> "None", id |-> NoneId]
DryRunMarker == -1

\* what a platform API call does: raise, answer without data, or answer
\* with a tweet id (and, for v1.1, the screen name of the user)
RespRaise == [kind |-> "raise", id |-> NoneId, screen_name |-> ""]
RespNoData == [kind |-> "nodata", id |-> NoneId, screen_name |-> ""]
RespOk(id, sn) == [kind |-> "ok", id |-> id, screen_name |-> sn]

\* attribute access on clients=None raises before any request is sent
ApiResponse(clients, resp) == IF clients = NoClients THEN RespRaise ELSE resp
ApiRecorded(clients, call) == IF clients = NoClients THEN <<>> ELSE <<call>>

ApiCall(api, text, reply_to) == [api |-> api, text |-> text, reply_to |-> reply_to]

PostResult(ok, id, url, error, has_thread_ids, thread_ids, image_attached, api_calls) ==
  [ok |-> ok, id |-> id, url |-> url, error |-> error,
   has_thread_ids |-> has_thread_ids, thread_ids |-> thread_ids,
   image_attached |-> image_attached, api_calls |-> api_calls]

WebStatusUrl(id) == IF id # NoneId THEN [base |-> "x.com/i/web/status", id |-> id] ELSE UrlNone
UserStatusUrl(sn, id) == IF sn # "" THEN [base |-> "x.com/user/status", id |-> id] ELSE UrlNone

\* publish_tweet that also falls back when the v2 call returned no tweet id
publish_tweet_fallback_always(clients, text, dry_run, v2, v1) ==
  IF dry_run THEN PostResult(TRUE, NoneId, UrlNone, "None", FALSE, <<>>, FALSE, <<>>)
  ELSE
    LET r2 == ApiResponse(clients, v2)
        c2 == ApiRecorded(clients, ApiCall("v2.create_tweet", text, NoneId))
    IN IF r2.kind = "ok"
       THEN PostResult(TRUE, r2.id, WebStatusUrl(r2.id), "None", FALSE, <<>>, FALSE, c2)
       ELSE LET r1 == ApiResponse(clients, v1)
                c1 == ApiRecorded(clients, ApiCall("v1.update_status", text, NoneId))
            IN IF r1.kind = "ok"
               THEN PostResult(TRUE, r1.id, UserStatusUrl(r1.screen_name, r1.id),
                               "None", FALSE, <<>>, FALSE, c2 \o c1)
               ELSE PostResult(FALSE, NoneId, UrlNone, "v2_error; v1_error",
                               FALSE, <<>>, FALSE, c2 \o c1)

\* publish_tweet that gives up when the v2 call raised
publish_tweet_v2_only(clients, text, dry_run, v2, v1) ==
  IF dry_run THEN PostResult(TRUE, NoneId, UrlNone, "None", FALSE, <<>>, FALSE, <<>>)
  ELSE
    LET r2 == ApiResponse(clients, v2)
        c2 == ApiRecorded(clients, ApiCall("v2.create_tweet", text, NoneId))
    IN IF r2.kind = "ok"
       THEN PostResult(TRUE, r2.id, WebStatusUrl(r2.id), "None", FALSE, <<>>, FALSE, c2)
       ELSE PostResult(FALSE, NoneId, UrlNone, "Unknown posting failure",
                       FALSE, <<>>, FALSE, c2)

publish_tweet(clients, text, dry_run, v2, v1) ==
  IF dry_run THEN PostResult(TRUE, NoneId, UrlNone, "None", FALSE, <<>>, FALSE, <<>>)
  ELSE
    LET r2 == ApiResponse(clients, v2)
        c2 == ApiRecorded(clients, ApiCall("v2.create_tweet", text, NoneId))
    IN IF r2.kind = "ok"
       THEN PostResult(TRUE, r2.id, WebStatusUrl(r2.id), "None", FALSE, <<>>, FALSE, c2)
       ELSE IF r2.kind = "raise"
       THEN LET r1 == ApiResponse(clients, v1)
                c1 == ApiRecorded(clients, ApiCall("v1.update_status", text, NoneId))
            IN IF r1.kind = "ok"
               THEN PostResult(TRUE, r1.id, UserStatusUrl(r1.screen_name, r1.id),
                               "None", FALSE, <<>>, FALSE, c2 \o c1)
               ELSE PostResult(FALSE, NoneId, UrlNone, "v2_error; v1_error",
                               FALSE, <<>>, FALSE, c2 \o c1)
       ELSE PostResult(FALSE, NoneId, UrlNone, "Unknown posting failure",
                       FALSE, <<>>, FALSE, c2)

RECURSIVE ThreadLoop_reply_first(_, _, _, _, _, _)
\* the for loop of publish_thread with every reply attached to the first tweet
ThreadLoop_reply_first(clients, thread_parts, resps, i, thread_ids, api_calls) ==
  IF i > Len(thread_parts)
  THEN PostResult(TRUE,
                  IF thread_ids # <<>> THEN thread_ids[1] ELSE NoneId,
                  IF thread_ids # <<>> THEN WebStatusUrl(thread_ids[1]) ELSE UrlNone,
                  "None", TRUE, thread_ids, FALSE, api_calls)
  ELSE
    LET in_reply_to_id == IF thread_ids = <<>> THEN NoneId ELSE thread_ids[1]
        r == ApiResponse(clients, resps[i])
        c == api_calls \o ApiRecorded(clients, ApiCall("v2.create_tweet", thread_parts[i], in_reply_to_id))
    IN IF r.kind = "raise"
       THEN PostResult(FALSE, NoneId, UrlNone, "Thread creation failed", FALSE, <<>>, FALSE, c)
       ELSE IF r.kind = "ok"
       THEN ThreadLoop_reply_first(clients, thread_parts, resps, i + 1, Append(thread_ids, r.id), c)
       ELSE PostResult(FALSE, NoneId, UrlNone, "Failed to create thread part", FALSE, <<>>, FALSE, c)

RECURSIVE ThreadLoop(_, _, _, _, _, _)
\* the for loop of publish_thread from part i on
ThreadLoop(clients, thread_parts, resps, i, thread_ids, api_calls) ==
  IF i > Len(thread_parts)
  THEN PostResult(TRUE,
                  IF thread_ids # <<>> THEN thread_ids[1] ELSE NoneId,
                  IF thread_ids # <<>> THEN WebStatusUrl(thread_ids[1]) ELSE UrlNone,
                  "None", TRUE, thread_ids, FALSE, api_calls)
  ELSE
    LET in_reply_to_id == IF thread_ids = <<>> THEN NoneId ELSE thread_ids[Len(thread_ids)]
        r == ApiResponse(clients, resps[i])
        c == api_calls \o ApiRecorded(clients, ApiCall("v2.create_tweet", thread_parts[i], in_reply_to_id))
    IN IF r.kind = "raise"
       THEN PostResult(FALSE, NoneId, UrlNone, "Thread creation failed", FALSE, <<>>, FALSE, c)
       ELSE IF r.kind = "ok"
       THEN ThreadLoop(clients, thread_parts, resps, i + 1, Append(thread_ids, r.id), c)
       ELSE PostResult(FALSE, NoneId, UrlNone, "Failed to create thread part", FALSE, <<>>, FALSE, c)

\* publish_thread without its dry-run shortcut
publish_thread_live(clients, thread_parts, dry_run, resps) ==
  ThreadLoop(clients, thread_parts, resps, 1, <<>>, <<>>)

publish_thread(clients, thread_parts, dry_run, resps) ==
  IF dry_run
  THEN PostResult(TRUE, NoneId, UrlNone, "None", TRUE, <<DryRunMarker>>, FALSE, <<>>)
  ELSE ThreadLoop(clients, thread_parts, resps, 1, <<>>, <<>>)

publish_long_post(clients, text, dry_run, v2) ==
  IF dry_run THEN PostResult(TRUE, NoneId, UrlNone, "None", FALSE, <<>>, FALSE, <<>>)
  ELSE
    LET r2 == ApiResponse(clients, v2)
        c2 == ApiRecorded(clients, ApiCall("v2.create_tweet", text, NoneId))
    IN IF r2.kind = "raise"
       THEN PostResult(FALSE, NoneId, UrlNone, "Long post creation failed", FALSE, <<>>, FALSE, c2)
       ELSE IF r2.kind = "ok"
       THEN PostResult(TRUE, r2.id, WebStatusUrl(r2.id), "None", FALSE, <<>>, FALSE, c2)
       ELSE PostResult(FALSE, NoneId, UrlNone, "Failed to create long post", FALSE, <<>>, FALSE, c2)

\* media is the response of api_v1.media_upload, v1 that of update_status
publish_with_image(clients, text, image_data, dry_run, media, v1) ==
  IF dry_run THEN PostResult(TRUE, NoneId, UrlNone, "None", FALSE, <<>>, TRUE, <<>>)
  ELSE
    LET rm == ApiResponse(clients, media)
        cm == ApiRecorded(clients, ApiCall("v1.media_upload", image_data, NoneId))
    IN IF rm.kind = "raise"
       THEN PostResult(FALSE, NoneId, UrlNone, "Image tweet creation failed", FALSE, <<>>, FALSE, cm)
       ELSE
         LET r1 == ApiResponse(clients, v1)
             c1 == cm \o ApiRecorded(clients, ApiCall("v1.update_status", text, NoneId))
         IN IF r1.kind = "raise"
            THEN PostResult(FALSE, NoneId, UrlNone, "Image tweet creation failed", FALSE, <<>>, FALSE, c1)
            ELSE PostResult(TRUE, r1.id, UserStatusUrl(r1.screen_name, r1.id),
                            "None", FALSE, <<>>, TRUE, c1)

\* ---------------------------------------------------- content_strategy.py
\* A str is the sequence of its code points.
IsSpace(c) == c \in {9, 10, 11, 12, 13, 32}

\* value bound to a name, as the assignment to a local variable does
With(value, Rest(_)) == CHOOSE r \in {Rest(v) : v \in {value}} : TRUE

\* s.lower() on the letters A-Z
Lower(s) ==
  With(s, LAMBDA str : [i \in DOMAIN str |-> IF str[i] \in 65..90 THEN str[i] + 32 ELSE str[i]])

\* p in s
Contains(s, p) ==
  \E str \in {s}, pat \in {p} :
    \E i \in 1..(Len(str) - Len(pat) + 1) : \A j \in 1..Len(pat) : str[i + j - 1] = pat[j]

\* len(s.split())
WordCount(s) ==
  With(s, LAMBDA str :
    Cardinality({i \in DOMAIN str : ~IsSpace(str[i]) /\ (i = 1 \/ IsSpace(str[i - 1]))}))

\* s[:k]
SliceTo(s, k) ==
  With(s, LAMBDA str :
    IF k >= 0 THEN SubSeq(str, 1, Min(k, Len(str)))
    ELSE SubSeq(str, 1, IF Len(str) + k > 0 THEN Len(str) + k ELSE 0))

\* A float is the pair <<hi, lo>> of the binary64 value (hi * 2^29 + lo) * 2^-56;
\* every value between 2^-4 and 4 is of this form.
FloatBase == 2^29

\* the spacing of binary64 values, in units of 2^-56, around hi * 2^-27
Ulp(hi) ==
  IF hi >= 268435456 THEN 32
  ELSE IF hi >= 134217728 THEN 16
  ELSE IF hi >= 67108864 THEN 8
  ELSE IF hi >= 33554432 THEN 4
  ELSE IF hi >= 16777216 THEN 2
  ELSE 1

\* x + y, rounded to the nearest binary64 value (ties to even)
FloatAdd(x, y) ==
  LET sum == x[2] + y[2]
      lo == sum % FloatBase
      hi == x[1] + y[1] + (sum \div FloatBase)
      q == Ulp(hi)
      r == lo % q
      up == 2 * r > q \/ (2 * r = q /\ (lo \div q) % 2 = 1)
      lo1 == IF up THEN lo - r + q ELSE lo - r
  IN IF lo1 = FloatBase THEN <<hi + 1, 0>> ELSE <<hi, lo1>>

\* x > y
FloatGt(x, y) == x[1] > y[1] \/ (x[1] = y[1] /\ x[2] > y[2])

\* min(x, y)
FloatMin(x, y) == IF FloatGt(x, y) THEN y ELSE x

FloatZero == <<0, 0>>

\* score += 0.2
TitleWeight == <<26843545, 322122548>>

\* score += 0.25
ContentWeight == <<33554432, 0>>

\* score += 0.15
KeywordWeight == <<20132659, 107374182>>

\* score += 0.08
EntityWeight == <<10737418, 128849019>>

\* 1.0
ScoreCap == <<134217728, 0>>

\* 0.6
ThreadThreshold_low == <<80530636, 429496728>>

\* 0.7
ThreadThreshold == <<93952409, 322122544>>

\* 0.1
LongThreshold == <<13421772, 429496730>>

\* 0.15
ImageThreshold == <<20132659, 107374182>>

\* 0.8
BigNewsThreshold == <<107374182, 214748368>>

high_impact_keywords ==
  <<<<98, 114, 101, 97, 107, 116, 104, 114, 111, 117, 103, 104>>,  \* breakthrough
    <<114, 101, 118, 111, 108, 117, 116, 105, 111, 110, 97, 114, 121>>,  \* revolutionary
    <<103, 97, 109, 101, 45, 99, 104, 97, 110, 103, 105, 110, 103>>,  \* game-changing
    <<112, 97, 114, 97, 100, 105, 103, 109, 32, 115, 104, 105, 102, 116>>,  \* paradigm shift
    <<102, 105, 114, 115, 116, 32, 116, 105, 109, 101>>,  \* first time
    <<117, 110, 112, 114, 101, 99, 101, 100, 101, 110, 116, 101, 100>>,  \* unprecedented
    <<109, 97, 106, 111, 114, 32, 97, 110, 110, 111, 117, 110, 99, 101, 109, 101, 110, 116>>,  \* major announcement
    <<108, 97, 117, 110, 99, 104>>,  \* launch
    <<112, 97, 114, 116, 110, 101, 114, 115, 104, 105, 112>>,  \* partnership
    <<97, 99, 113, 117, 105, 115, 105, 116, 105, 111, 110>>,  \* acquisition
    <<102, 117, 110, 100, 105, 110, 103>>,  \* funding
    <<73, 80, 79>>,  \* IPO
    <<114, 101, 103, 117, 108, 97, 116, 105, 111, 110>>>>  \* regulation

major_entities ==
  <<<<111, 112, 101, 110, 97, 105>>,  \* openai
    <<103, 111, 111, 103, 108, 101>>,  \* google
    <<109, 105, 99, 114, 111, 115, 111, 102, 116>>,  \* microsoft
    <<97, 110, 116, 104, 114, 111, 112, 105, 99>>,  \* anthropic
    <<100, 101, 101, 112, 109, 105, 110, 100>>,  \* deepmind
    <<101, 116, 104, 101, 114, 101, 117, 109>>,  \* ethereum
    <<98, 105, 116, 99, 111, 105, 110>>,  \* bitcoin
    <<97, 49, 54, 122>>,  \* a16z
    <<115, 101, 113, 117, 111, 105, 97>>,  \* sequoia
    <<121, 32, 99, 111, 109, 98, 105, 110, 97, 116, 111, 114>>>>  \* y combinator

RECURSIVE ScoreMatches(_, _, _, _, _)
\* for word in words: if word.lower() in text: score += weight
\* (the loop from the i-th word on)
ScoreMatches(score, words, i, text, weight) ==
  IF i > Len(words) THEN score
  ELSE With(IF Contains(text, Lower(words[i])) THEN FloatAdd(score, weight) ELSE score,
            LAMBDA next : ScoreMatches(next, words, i + 1, text, weight))

\* _calculate_importance_score that returns score instead of min(score, 1.0)
calculate_importance_score_uncapped(title, content) ==
  LET title_words == WordCount(title)
      content_words == WordCount(content)
      s1 == IF title_words > 8 THEN FloatAdd(FloatZero, TitleWeight) ELSE FloatZero
  IN With(Lower(title \o <<32>> \o content), LAMBDA text :
     With(IF content_words > 200 THEN FloatAdd(s1, ContentWeight) ELSE s1, LAMBDA s2 :
     With(ScoreMatches(s2, high_impact_keywords, 1, text, KeywordWeight), LAMBDA s3 :
       ScoreMatches(s3, major_entities, 1, text, EntityWeight))))

calculate_importance_score(title, content) ==
  LET title_words == WordCount(title)
      content_words == WordCount(content)
      s1 == IF title_words > 8 THEN FloatAdd(FloatZero, TitleWeight) ELSE FloatZero
  IN With(Lower(title \o <<32>> \o content), LAMBDA text :
     With(IF content_words > 200 THEN FloatAdd(s1, ContentWeight) ELSE s1, LAMBDA s2 :
     With(ScoreMatches(s2, high_impact_keywords, 1, text, KeywordWeight), LAMBDA s3 :
     With(ScoreMatches(s3, major_entities, 1, text, EntityWeight), LAMBDA s4 :
       FloatMin(s4, ScoreCap)))))

\* _auto_determine_type with the image rule tested before the long rule
auto_determine_type_image_first(importance_score, enable_threads, enable_images) ==
  IF FloatGt(importance_score, ThreadThreshold) /\ enable_threads THEN "thread"
  ELSE IF FloatGt(importance_score, ImageThreshold) /\ enable_images THEN "image"
  ELSE IF FloatGt(importance_score, LongThreshold) THEN "long"
  ELSE "short"

\* _auto_determine_type with the comparison of the long branch turned round
auto_determine_type_long_below(importance_score, enable_threads, enable_images) ==
  IF FloatGt(importance_score, ThreadThreshold) /\ enable_threads THEN "thread"
  ELSE IF FloatGt(LongThreshold, importance_score) THEN "long"
  ELSE IF FloatGt(importance_score, ImageThreshold) /\ enable_images THEN "image"
  ELSE "short"

auto_determine_type(importance_score, enable_threads, enable_images) ==
  IF FloatGt(importance_score, ThreadThreshold) /\ enable_threads THEN "thread"
  ELSE IF FloatGt(importance_score, LongThreshold) THEN "long"
  ELSE IF FloatGt(importance_score, ImageThreshold) /\ enable_images THEN "image"
  ELSE "short"

\* image_prompt = <<>> stands for None
ContentStrategy(content_type, content_parts, use_image, image_prompt) ==
  [content_type |-> content_type, content_parts |-> content_parts,
   use_image |-> use_image, image_prompt |-> image_prompt]

\* str(n) for n >= 0
RECURSIVE IntStr(_)
IntStr(n) == IF n < 10 THEN <<48 + n>> ELSE IntStr(n \div 10) \o <<48 + (n % 10)>>

\* s.strip()
Strip(s) ==
  With(s, LAMBDA str :
    With({i \in DOMAIN str : ~IsSpace(str[i])}, LAMBDA keep :
      IF keep = {} THEN <<>>
      ELSE SubSeq(str, CHOOSE i \in keep : \A j \in keep : i <= j,
                       CHOOSE i \in keep : \A j \in keep : j <= i)))

IsSentenceEnd(c) == c \in {46, 33, 63}

\* re.split(r'[.!?]+', content) without the empty strings it returns, which
\* the length test of _extract_key_points drops
Sentences(content) ==
  With(content, LAMBDA str :
    With({i \in DOMAIN str : ~IsSentenceEnd(str[i]) /\ (i = 1 \/ IsSentenceEnd(str[i - 1]))},
         LAMBDA starts :
      LET start(k) == CHOOSE i \in starts : Cardinality({j \in starts : j < i}) = k - 1
          stop(i) == IF \E j \in i..Len(str) : IsSentenceEnd(str[j])
                     THEN (CHOOSE j \in i..Len(str) :
                             /\ IsSentenceEnd(str[j])
                             /\ \A m \in i..(j - 1) : ~IsSentenceEnd(str[m])) - 1
                     ELSE Len(str)
      IN [k \in 1..Cardinality(starts) |->
            With(start(k), LAMBDA from : SubSeq(str, from, stop(from)))]))

action_verbs ==
  <<<<97, 110, 110, 111, 117, 110, 99, 101, 100>>,  \* announced
    <<108, 97, 117, 110, 99, 104, 101, 100>>,  \* launched
    <<114, 101, 108, 101, 97, 115, 101, 100>>,  \* released
    <<105, 110, 116, 114, 111, 100, 117, 99, 101, 100>>,  \* introduced
    <<100, 101, 118, 101, 108, 111, 112, 101, 100>>>>  \* developed

MinSentenceLen == 20
MaxSentenceLen == 200
MaxKeyPoints == 3

RECURSIVE KeySentences(_, _, _)
\* the for loop of _extract_key_points from the i-th sentence on
KeySentences(sentences, i, key_sentences) ==
  IF i > Len(sentences) THEN key_sentences
  ELSE With(Strip(sentences[i]), LAMBDA sentence :
       With(IF Len(sentence) > MinSentenceLen /\ Len(sentence) < MaxSentenceLen
            THEN IF \E w \in DOMAIN action_verbs : Contains(Lower(sentence), action_verbs[w])
                 THEN Append(key_sentences, sentence)
                 ELSE IF Len(key_sentences) < MaxKeyPoints
                 THEN Append(key_sentences, sentence)
                 ELSE key_sentences
            ELSE key_sentences,
            LAMBDA next : KeySentences(sentences, i + 1, next)))

extract_key_points(content) ==
  With(Sentences(content), LAMBDA sentences :
    SliceTo(KeySentences(sentences, 1, <<>>), MaxKeyPoints))

\* 🚀 
HookHead ==
  <<128640, 32>>

\* This is BIG news that could reshape the entire industry. Let me break it down:
HookBig ==
  <<84, 104, 105, 115, 32, 105, 115, 32, 66, 73, 71, 32, 110, 101, 119, 115, 32, 116, 104, 97, 116, 32, 99, 111, 117, 108, 100, 32, 114, 101, 115, 104, 97, 112, 101, 32, 116, 104, 101, 32, 101, 110, 116, 105, 114, 101, 32, 105, 110, 100, 117, 115, 116, 114, 121, 46, 32, 76, 101, 116, 32, 109, 101, 32, 98, 114, 101, 97, 107, 32, 105, 116, 32, 100, 111, 119, 110, 58>>

\* Important development worth diving into:
HookNormal ==
  <<73, 109, 112, 111, 114, 116, 97, 110, 116, 32, 100, 101, 118, 101, 108, 111, 112, 109, 101, 110, 116, 32, 119, 111, 114, 116, 104, 32, 100, 105, 118, 105, 110, 103, 32, 105, 110, 116, 111, 58>>

\* 🔍 Key Insights:\n\n
InsightsHead ==
  <<128269, 32, 75, 101, 121, 32, 73, 110, 115, 105, 103, 104, 116, 115, 58, 10, 10>>

\* 💡 What This Means:\n\n
ImplicationsHead ==
  <<128161, 32, 87, 104, 97, 116, 32, 84, 104, 105, 115, 32, 77, 101, 97, 110, 115, 58, 10, 10>>

\* • Accelerates AI development timeline\n• New opportunities for developers\n• Potential regulatory considerations
ImplicationsAI ==
  <<8226, 32, 65, 99, 99, 101, 108, 101, 114, 97, 116, 101, 115, 32, 65, 73, 32, 100, 101, 118, 101, 108, 111, 112, 109, 101, 110, 116, 32, 116, 105, 109, 101, 108, 105, 110, 101, 10, 8226, 32, 78, 101, 119, 32, 111, 112, 112, 111, 114, 116, 117, 110, 105, 116, 105, 101, 115, 32, 102, 111, 114, 32, 100, 101, 118, 101, 108, 111, 112, 101, 114, 115, 10, 8226, 32, 80, 111, 116, 101, 110, 116, 105, 97, 108, 32, 114, 101, 103, 117, 108, 97, 116, 111, 114, 121, 32, 99, 111, 110, 115, 105, 100, 101, 114, 97, 116, 105, 111, 110, 115>>

\* • Advances decentralized infrastructure\n• New DeFi protocols possible\n• Enhanced user experiences
ImplicationsWeb3 ==
  <<8226, 32, 65, 100, 118, 97, 110, 99, 101, 115, 32, 100, 101, 99, 101, 110, 116, 114, 97, 108, 105, 122, 101, 100, 32, 105, 110, 102, 114, 97, 115, 116, 114, 117, 99, 116, 117, 114, 101, 10, 8226, 32, 78, 101, 119, 32, 68, 101, 70, 105, 32, 112, 114, 111, 116, 111, 99, 111, 108, 115, 32, 112, 111, 115, 115, 105, 98, 108, 101, 10, 8226, 32, 69, 110, 104, 97, 110, 99, 101, 100, 32, 117, 115, 101, 114, 32, 101, 120, 112, 101, 114, 105, 101, 110, 99, 101, 115>>

\* • Industry disruption ahead\n• New market opportunities\n• Technology evolution continues
ImplicationsOther ==
  <<8226, 32, 73, 110, 100, 117, 115, 116, 114, 121, 32, 100, 105, 115, 114, 117, 112, 116, 105, 111, 110, 32, 97, 104, 101, 97, 100, 10, 8226, 32, 78, 101, 119, 32, 109, 97, 114, 107, 101, 116, 32, 111, 112, 112, 111, 114, 116, 117, 110, 105, 116, 105, 101, 115, 10, 8226, 32, 84, 101, 99, 104, 110, 111, 108, 111, 103, 121, 32, 101, 118, 111, 108, 117, 116, 105, 111, 110, 32, 99, 111, 110, 116, 105, 110, 117, 101, 115>>

\* 🎯 Why This Matters:\n\nThis development represents a significant step forward in the convergence of AI and Web3 technologies.
WhyMatters ==
  <<127919, 32, 87, 104, 121, 32, 84, 104, 105, 115, 32, 77, 97, 116, 116, 101, 114, 115, 58, 10, 10, 84, 104, 105, 115, 32, 100, 101, 118, 101, 108, 111, 112, 109, 101, 110, 116, 32, 114, 101, 112, 114, 101, 115, 101, 110, 116, 115, 32, 97, 32, 115, 105, 103, 110, 105, 102, 105, 99, 97, 110, 116, 32, 115, 116, 101, 112, 32, 102, 111, 114, 119, 97, 114, 100, 32, 105, 110, 32, 116, 104, 101, 32, 99, 111, 110, 118, 101, 114, 103, 101, 110, 99, 101, 32, 111, 102, 32, 65, 73, 32, 97, 110, 100, 32, 87, 101, 98, 51, 32, 116, 101, 99, 104, 110, 111, 108, 111, 103, 105, 101, 115, 46>>

\* AI
StrAI ==
  <<65, 73>>

\* artificial intelligence
StrArtificialIntelligence ==
  <<97, 114, 116, 105, 102, 105, 99, 105, 97, 108, 32, 105, 110, 116, 101, 108, 108, 105, 103, 101, 110, 99, 101>>

\* Web3
StrWeb3 ==
  <<87, 101, 98, 51>>

\* blockchain
StrBlockchain ==
  <<98, 108, 111, 99, 107, 99, 104, 97, 105, 110>>

\* ...
Ellipsis ==
  <<46, 46, 46>>

\* \n\n🧵 Thread on 
ThreadOn ==
  <<10, 10, 129525, 32, 84, 104, 114, 101, 97, 100, 32, 111, 110, 32>>

\*  🔗 
LinkMark ==
  <<32, 128279, 32>>

\* \n\n
Blank ==
  <<10, 10>>

\* Visual representation of: 
PromptHead ==
  <<86, 105, 115, 117, 97, 108, 32, 114, 101, 112, 114, 101, 115, 101, 110, 116, 97, 116, 105, 111, 110, 32, 111, 102, 58, 32>>

\* . Key elements: AI/Web3 technology, 
PromptMiddle ==
  <<46, 32, 75, 101, 121, 32, 101, 108, 101, 109, 101, 110, 116, 115, 58, 32, 65, 73, 47, 87, 101, 98, 51, 32, 116, 101, 99, 104, 110, 111, 108, 111, 103, 121, 44, 32>>

\*  style, modern aesthetic.
PromptTail ==
  <<32, 115, 116, 121, 108, 101, 44, 32, 109, 111, 100, 101, 114, 110, 32, 97, 101, 115, 116, 104, 101, 116, 105, 99, 46>>

RECURSIVE NumberedPoints(_, _)
\* for i, point in enumerate(key_points[:3], 1): insights += f"{i}. {point}\n"
NumberedPoints(points, i) ==
  IF i > Len(points) THEN <<>>
  ELSE IntStr(i) \o <<46, 32>> \o points[i] \o <<10>> \o NumberedPoints(points, i + 1)

create_thread_parts(title, content, url, tone, importance_score) ==
  LET hook == HookHead \o title \o Blank
                \o (IF FloatGt(importance_score, BigNewsThreshold) THEN HookBig ELSE HookNormal)
      insights == InsightsHead
                    \o With(extract_key_points(content), LAMBDA key_points :
                         With(SliceTo(key_points, MaxKeyPoints), LAMBDA points :
                           NumberedPoints(points, 1)))
      implications ==
        ImplicationsHead
          \o (IF Contains(title, StrAI) \/ Contains(Lower(content), StrArtificialIntelligence)
              THEN ImplicationsAI
              ELSE IF Contains(title, StrWeb3) \/ Contains(Lower(content), StrBlockchain)
              THEN ImplicationsWeb3
              ELSE ImplicationsOther)
      why_matters == WhyMatters
  IN <<hook, insights, implications, why_matters>>

TitleCut == 50

\* if len(part) > max_length: part = part[:max_length-3] + "..."
Truncate(part, max_length) ==
  With(part, LAMBDA str :
    IF Len(str) > max_length THEN SliceTo(str, max_length - 3) \o Ellipsis ELSE str)

\* _create_thread_strategy that cuts a part after the thread indicator is added
create_thread_strategy_cut_last(title, content, url, tone, importance_score, max_length) ==
  With(create_thread_parts(title, content, url, tone, importance_score), LAMBDA thread_parts :
    LET n == Len(thread_parts)
        formatted(i) ==
          Truncate(thread_parts[i]
                     \o (IF i = 1 THEN ThreadOn \o SliceTo(title, TitleCut) \o Ellipsis
                         ELSE IF i < n THEN Blank \o IntStr(i) \o <<47>> \o IntStr(n)
                         ELSE Blank \o IntStr(i) \o <<47>> \o IntStr(n) \o LinkMark \o url),
                   max_length)
    IN ContentStrategy("thread", [i \in 1..n |-> formatted(i)], FALSE, <<>>))

create_thread_strategy(title, content, url, tone, importance_score, max_length) ==
  With(create_thread_parts(title, content, url, tone, importance_score), LAMBDA thread_parts :
    LET n == Len(thread_parts)
        formatted(i) ==
          Truncate(thread_parts[i], max_length)
            \o (IF i = 1 THEN ThreadOn \o SliceTo(title, TitleCut) \o Ellipsis
                ELSE IF i < n THEN Blank \o IntStr(i) \o <<47>> \o IntStr(n)
                ELSE Blank \o IntStr(i) \o <<47>> \o IntStr(n) \o LinkMark \o url)
    IN ContentStrategy("thread", [i \in 1..n |-> formatted(i)], FALSE, <<>>))

\* long_content is the text _format_long_content returns
create_long_post_strategy(title, content, url, tone, max_length, long_content) ==
  ContentStrategy("long", <<Truncate(long_content, max_length)>>, FALSE, <<>>)

\* post_content is the text _create_engaging_short_post returns
create_short_post_strategy(title, content, url, tone, post_content) ==
  ContentStrategy("short", <<post_content>>, FALSE, <<>>)

\* post_content is the text _create_engaging_image_post returns;
\* image_prompt is the textual prompt, not image data
create_image_strategy(title, content, url, tone, post_content) ==
  ContentStrategy("image", <<post_content>>, TRUE,
                  PromptHead \o title \o PromptMiddle \o tone \o PromptTail)

\* determine_content_strategy that scores the article whatever config_strategy is
determine_content_strategy_scored(title, content, url, tone, config_strategy, max_length, enable_threads, enable_images, texts) ==
  With(calculate_importance_score(title, content), LAMBDA importance_score :
    LET content_type == auto_determine_type(importance_score, enable_threads, enable_images)
    IN IF content_type = "thread" /\ enable_threads
       THEN create_thread_strategy(title, content, url, tone, importance_score, max_length)
       ELSE IF content_type = "long"
       THEN create_long_post_strategy(title, content, url, tone, max_length, texts.long_content)
       ELSE IF content_type = "image" /\ enable_images
       THEN create_image_strategy(title, content, url, tone, texts.image_post)
       ELSE create_short_post_strategy(title, content, url, tone, texts.short_post))

\* texts holds what the functions that fill templates chosen by random.choice
\* return for this article: short_post, long_content, image_post
determine_content_strategy(title, content, url, tone, config_strategy, max_length, enable_threads, enable_images, texts) ==
  With(calculate_importance_score(title, content), LAMBDA importance_score :
    LET content_type == IF config_strategy = "auto"
                        THEN auto_determine_type(importance_score, enable_threads, enable_images)
                        ELSE config_strategy
    IN IF content_type = "thread" /\ enable_threads
       THEN create_thread_strategy(title, content, url, tone, importance_score, max_length)
       ELSE IF content_type = "long"
       THEN create_long_post_strategy(title, content, url, tone, max_length, texts.long_content)
       ELSE IF content_type = "image" /\ enable_images
       THEN create_image_strategy(title, content, url, tone, texts.image_post)
       ELSE create_short_post_strategy(title, content, url, tone, texts.short_post))

\* ------------------------------------------------------------- config.py
\* the attributes a Config object has
ConfigFields ==
  {"app", "style", "sources", "allowlist_domains", "openai_api_key", "openai_model",
   "grok_api_key", "grok_model", "x_consumer_key", "x_consumer_secret",
   "x_access_token", "x_access_token_secret", "db_path"}

ConfigStrategies == {"auto", "image"}

\* professional
DefaultTone ==
  <<112, 114, 111, 102, 101, 115, 115, 105, 111, 110, 97, 108>>

DefaultMaxPostLength == 25000
ShortPostLimit == 280

\* openai_api_key is TRUE when the key is set and not empty
Configs ==
  [dry_run : BOOLEAN, max_daily_posts : 0..MaxDailyPosts, content_strategy : ConfigStrategies,
   enable_threads : BOOLEAN, enable_images : BOOLEAN, openai_api_key : BOOLEAN,
   tone : {DefaultTone}, use_premium_features : BOOLEAN,
   max_post_length : {DefaultMaxPostLength}]

\* the configurations explored: dry_run is set per run (see RunOnce), and a
\* flag the chosen strategy never reads stays at one value
InitConfigs ==
  {c \in Configs : /\ c.dry_run
                   /\ c.use_premium_features
                   /\ (c.content_strategy = "image" => c.enable_threads)
                   /\ (~c.enable_images => ~c.openai_api_key)}

\* --------------------------------------------------------- collectors.py
\* summary = <<>> stands for None and for ""
Article(url, title, summary) == [url |-> url, title |-> title, summary |-> summary]

\* the address of article u as a str: http://u/<u>
UrlText(u) == <<104, 116, 116, 112, 58, 47, 47, 117, 47>> \o IntStr(u)

\* Tools update
PlainTitle ==
  <<84, 111, 111, 108, 115, 32, 117, 112, 100, 97, 116, 101>>
\* OpenAI and Google launch partnership after funding and acquisition
BigTitle ==
  <<79, 112, 101, 110, 65, 73, 32, 97, 110, 100, 32, 71, 111, 111, 103, 108, 101, 32, 108, 97, 117, 110, 99, 104, 32, 112, 97, 114, 116, 110, 101, 114, 115, 104, 105, 112, 32, 97, 102, 116, 101, 114, 32, 102, 117, 110, 100, 105, 110, 103, 32, 97, 110, 100, 32, 97, 99, 113, 117, 105, 115, 105, 116, 105, 111, 110>>
\* The companies announced a joint research lab.
BigSummary ==
  <<84, 104, 101, 32, 99, 111, 109, 112, 97, 110, 105, 101, 115, 32, 97, 110, 110, 111, 117, 110, 99, 101, 100, 32, 97, 32, 106, 111, 105, 110, 116, 32, 114, 101, 115, 101, 97, 114, 99, 104, 32, 108, 97, 98, 46>>

\* three sentences of about 90 characters each: The companies announced a
\* joint research lab that will study large models for science and medicine.
\* The lab launched with two hundred researchers and a budget that covers the
\* next five years. Both firms released a statement that invites
\* universities to send proposals this autumn.
LongSummary ==
  <<84, 104, 101, 32, 99, 111, 109, 112, 97, 110, 105, 101, 115, 32, 97, 110, 110, 111, 117, 110, 99, 101, 100, 32, 97, 32, 106, 111, 105, 110, 116, 32, 114, 101, 115, 101, 97, 114, 99, 104, 32, 108, 97, 98, 32, 116, 104, 97, 116, 32, 119, 105, 108, 108, 32, 115, 116, 117, 100, 121, 32, 108, 97, 114, 103, 101, 32, 109, 111, 100, 101, 108, 115, 32, 102, 111, 114, 32, 115, 99, 105, 101, 110, 99, 101, 32, 97, 110, 100, 32, 109, 101, 100, 105, 99, 105, 110, 101, 46, 32, 84, 104, 101, 32, 108, 97, 98, 32, 108, 97, 117, 110, 99, 104, 101, 100, 32, 119, 105, 116, 104, 32, 116, 119, 111, 32, 104, 117, 110, 100, 114, 101, 100, 32, 114, 101, 115, 101, 97, 114, 99, 104, 101, 114, 115, 32, 97, 110, 100, 32, 97, 32, 98, 117, 100, 103, 101, 116, 32, 116, 104, 97, 116, 32, 99, 111, 118, 101, 114, 115, 32, 116, 104, 101, 32, 110, 101, 120, 116, 32, 102, 105, 118, 101, 32, 121, 101, 97, 114, 115, 46, 32, 66, 111, 116, 104, 32, 102, 105, 114, 109, 115, 32, 114, 101, 108, 101, 97, 115, 101, 100, 32, 97, 32, 115, 116, 97, 116, 101, 109, 101, 110, 116, 32, 116, 104, 97, 116, 32, 105, 110, 118, 105, 116, 101, 115, 32, 117, 110, 105, 118, 101, 114, 115, 105, 116, 105, 101, 115, 32, 116, 111, 32, 115, 101, 110, 100, 32, 112, 114, 111, 112, 111, 115, 97, 108, 115, 32, 116, 104, 105, 115, 32, 97, 117, 116, 117, 109, 110, 46>>

\* the title and summary of the entries the feeds deliver
Texts == {[title |-> PlainTitle, summary |-> <<>>], [title |-> BigTitle, summary |-> BigSummary]}

Articles == {Article(u, t.title, t.summary) : u \in URLS, t \in Texts}

\* the url whose address is the str s
UrlOf(s) == CHOOSE u \in URLS : UrlText(u) = s

\* an entry a feed delivers: link = <<>> stands for an entry without link
Entry(link, title, summary) == [link |-> link, title |-> title, summary |-> summary]

RECURSIVE Collected(_, _)
\* the loop over parsed.entries from the i-th entry on: entries without link
\* are skipped, url=link.strip()
Collected(entries, i) ==
  IF i > Len(entries) THEN <<>>
  ELSE IF entries[i].link = <<>> THEN Collected(entries, i + 1)
  ELSE <<Article(UrlOf(Strip(entries[i].link)), entries[i].title, entries[i].summary)>>
         \o Collected(entries, i + 1)

\* a list that keeps every article of collected
collect_rss_articles_all(collected) == collected

RECURSIVE UniqueByUrl(_, _)
\* the "Deduplicate by URL" loop: the first article of each url is kept
UniqueByUrl(collected, seen) ==
  IF collected = <<>> THEN <<>>
  ELSE IF Head(collected).url \in seen THEN UniqueByUrl(Tail(collected), seen)
       ELSE <<Head(collected)>> \o UniqueByUrl(Tail(collected), seen \cup {Head(collected).url})

collect_rss_articles(collected) == UniqueByUrl(collected, {})

\* the entries the feeds can deliver in one fetch
Feeds == UNION {[1..n -> Articles] : n \in 0..MaxArticles}

Urls(arts) == {arts[i].url : i \in DOMAIN arts}

\* -------------------------------------------------------------- agent.py
VARIABLES
  cfg,            \* self.cfg
  db,             \* the posted table of the Dedup Store file
  cycle,          \* number of run_once calls started
  pc,             \* where run_once is: idle, gather, loop, publishing, done, raised
  articles,       \* run_once: articles
  new_articles,   \* run_once: new_articles
  api,            \* run_once: api
  clients_created,\* create_x_client was called in this cycle
  sem,            \* free slots of the semaphore
  task,           \* per process_article task: start, in, done, raised
  results,        \* per task: the strategy it returned
  finished,       \* task indices in the order the tasks ended
  pairs,          \* run_once: pairs
  idx,            \* position of the publish loop in pairs
  posted_urls,    \* run_once: posted_urls
  posted_count,   \* run_once: posted_count
  returned,       \* the list run_once returned
  calls,          \* publish calls of this cycle, in call order
  db0,            \* the posted table when this cycle started
  published,      \* per url: publish calls that returned ok with dry_run=false
  prevOk,         \* urls published ok with dry_run=false in earlier cycles
  prevFailed,     \* urls whose publish call failed in the previous cycle
  pubcall,        \* a direct call of one function: its name and arguments
  pubresult,      \* what that call returned
  pubdone         \* the direct call has returned

vars == <<cfg, db, cycle, pc, articles, new_articles, api, clients_created, sem,
          task, results, finished, pairs, idx, posted_urls, posted_count,
          returned, calls, db0, published, prevOk, prevFailed,
          pubcall, pubresult, pubdone>>

pubVars == <<pubcall, pubresult, pubdone>>

cycleVars == <<cfg, cycle, articles, new_articles, api, clients_created, db0, prevOk,
               prevFailed, pubVars>>

agentVars == <<cfg, db, cycle, pc, articles, new_articles, api, clients_created, sem,
               task, results, finished, pairs, idx, posted_urls, posted_count,
               returned, calls, db0, published, prevOk, prevFailed>>

SemaphoreLimit == 4

Locked_never(value) == FALSE

\* asyncio.Semaphore.locked(): no free slot, acquire has to wait
Locked(value) == value = 0

NullStrategy == ContentStrategy("None", <<>>, FALSE, <<>>)

\* a text of n characters, for the texts built from templates picked by
\* random.choice
TemplateText(n) == [i \in 1..n |-> 120]

\* the template texts of the articles of a cycle
AgentTexts ==
  [short_post |-> TemplateText(MaxTextLen), long_content |-> TemplateText(MaxTextLen),
   image_post |-> TemplateText(MaxTextLen)]

\* the bytes generate_news_image returns on success
ImageData == <<137, 80, 78, 71>>

\* max_length=cfg.app.max_post_length if cfg.app.use_premium_features else 280
MaxLength(c) == IF c.use_premium_features THEN c.max_post_length ELSE ShortPostLimit

\* no dedupe filter
NewArticles_all(arts, posted) == arts

\* [a for a in articles if not was_posted(cfg.db_path, a.url)]
NewArticles(arts, posted) == SelectSeq(arts, LAMBDA a : ~was_posted(posted, a.url))

\* the early return tests the collected list instead
NoNewArticles_collected(arts, new) == arts = <<>>

\* if not new_articles: return []
NoNewArticles(arts, new) == new = <<>>

\* api = None; if not cfg.app.dry_run: api = create_x_client(...)
PrepareClient(dry_run) == IF ~dry_run THEN XClients ELSE NoClients

\* the condition guarding the image generation in process_article
ImagePath(strategy, c) ==
  strategy.content_type = "image" /\ c.enable_images /\ c.openai_api_key

\* a wait that ends with the first task that returns
GatherDone_first(t) == \E i \in DOMAIN t : t[i] = "done"

\* asyncio.gather returns once every task has returned
GatherDone(t) == \A i \in DOMAIN t : t[i] = "done"

\* asyncio.gather raises as soon as one task has raised
GatherRaised(t) == \E i \in DOMAIN t : t[i] = "raised"

\* results in completion order, as asyncio.as_completed would give them
GatherPairs_as_completed(new, res, fin) ==
  [k \in DOMAIN fin |-> [article |-> new[fin[k]], strategy |-> res[fin[k]]]]

\* the result list of asyncio.gather is in the order of the awaitables
GatherPairs(new, res, fin) ==
  [i \in DOMAIN new |-> [article |-> new[i], strategy |-> res[i]]]

\* an off-by-one cap test
CapReached_after(count, max_daily_posts) == count > max_daily_posts

\* if posted_count >= self.cfg.app.max_daily_posts: break
CapReached(count, max_daily_posts) == count >= max_daily_posts

\* which publisher function the loop calls for a strategy
PublishFn(strategy) ==
  IF strategy.content_type = "thread" THEN "publish_thread"
  ELSE IF strategy.content_type = "long" THEN "publish_long_post"
  ELSE IF strategy.content_type = "image" /\ strategy.use_image /\ strategy.image_prompt # <<>>
       THEN "publish_with_image"
  ELSE "publish_tweet"

Publish(clients, strategy, dry_run, resps, v1) ==
  IF PublishFn(strategy) = "publish_thread"
  THEN publish_thread(clients, strategy.content_parts, dry_run, resps)
  ELSE IF PublishFn(strategy) = "publish_long_post"
  THEN publish_long_post(clients, strategy.content_parts[1], dry_run, resps[1])
  ELSE IF PublishFn(strategy) = "publish_with_image"
  THEN publish_with_image(clients, strategy.content_parts[1], strategy.image_prompt,
                          dry_run, resps[1], v1)
  ELSE publish_tweet(clients, strategy.content_parts[1], dry_run, resps[1], v1)

\* marking without looking at result.ok
MarkIfPosted_any_result(posted, result, dry_run, url) ==
  IF ~dry_run THEN mark_posted(posted, url, result.id) ELSE posted

\* marking without looking at dry_run
MarkIfPosted_dry(posted, result, dry_run, url) ==
  IF result.ok THEN mark_posted(posted, url, result.id) ELSE posted

\* if result.ok: if not cfg.app.dry_run: mark_posted(...)
MarkIfPosted(posted, result, dry_run, url) ==
  IF result.ok
  THEN IF ~dry_run THEN mark_posted(posted, url, result.id) ELSE posted
  ELSE posted

\* the ids the platform hands out are all different
CollectPosted_any_result(urls, result, url) == Append(urls, url)

\* if result.ok: posted_urls.append(article.url)
CollectPosted(urls, result, url) == IF result.ok THEN Append(urls, url) ELSE urls

TweetId(c, i, part) == c * 100 + i * 10 + part

\* the platform answers part by part; the answers after a failure are not read
Responses(c, i, n, failAt, failKind) ==
  [k \in 1..(IF n = 0 THEN 1 ELSE n) |-> IF k = failAt
                  THEN (IF failKind = "raise" THEN RespRaise ELSE RespNoData)
                  ELSE RespOk(TweetId(c, i, k), "")]

CallUrls(cs, status) == {cs[i].url : i \in {j \in DOMAIN cs : cs[j].status = status}}

NullResult == PostResult(FALSE, NoneId, UrlNone, "None", FALSE, <<>>, FALSE, <<>>)

\* the thread rendered for an article with BigTitle
SampleThread ==
  create_thread_strategy(BigTitle, BigSummary, UrlText(1), DefaultTone,
                         calculate_importance_score(BigTitle, BigSummary),
                         DefaultMaxPostLength).content_parts

\* the arguments of a direct publisher call; thread_parts is read by
\* publish_thread only, the other functions get a template text
PubCalls ==
  [fn : {"publish_tweet", "publish_thread", "publish_long_post", "publish_with_image"},
   clients : {NoClients, XClients},
   dry_run : BOOLEAN,
   thread_parts : {SubSeq(SampleThread, 1, n) : n \in 0..Len(SampleThread)},
   failAt : 0..Len(SampleThread),
   failKind : {"raise", "nodata"},
   v1kind : {"raise", "ok"}]

NoPubCall ==
  [fn |-> "None", clients |-> NoClients, dry_run |-> TRUE, thread_parts |-> <<>>,
   failAt |-> 0, failKind |-> "raise", v1kind |-> "raise"]

AgentInit(configs) ==
  /\ cfg \in configs
  /\ db = ensure_db({})
  /\ cycle = 0
  /\ pc = "idle"
  /\ articles = <<>>
  /\ new_articles = <<>>
  /\ api = NoClients
  /\ clients_created = FALSE
  /\ sem = SemaphoreLimit
  /\ task = <<>>
  /\ results = <<>>
  /\ finished = <<>>
  /\ pairs = <<>>
  /\ idx = 0
  /\ posted_urls = <<>>
  /\ posted_count = 0
  /\ returned = <<>>
  /\ calls = <<>>
  /\ db0 = {}
  /\ published = [u \in URLS |-> 0]
  /\ prevOk = {}
  /\ prevFailed = {}

Init ==
  /\ AgentInit(InitConfigs)
  /\ pubcall = NoPubCall
  /\ pubresult = NullResult
  /\ pubdone = FALSE

\* run_once up to the await of asyncio.gather; dry_run is the --dry-run
\* flag or the config value of the process that runs this cycle
RunOnceFrom(feed, dry_run) ==
  /\ pc = "idle"
  /\ cycle < MaxCycles
  /\ LET arts == collect_rss_articles(feed)
         new == NewArticles(arts, db)
     IN /\ cfg' = [cfg EXCEPT !.dry_run = dry_run]
        /\ cycle' = cycle + 1
        /\ articles' = arts
        /\ new_articles' = new
        /\ db0' = db
        /\ sem' = SemaphoreLimit
        /\ IF NoNewArticles(arts, new)
           THEN /\ pc' = "done"
                /\ api' = NoClients
                /\ clients_created' = FALSE
                /\ task' = <<>>
                /\ results' = <<>>
           ELSE /\ pc' = "gather"
                /\ api' = PrepareClient(dry_run)
                /\ clients_created' = ~dry_run
                /\ task' = [i \in DOMAIN new |-> "start"]
                /\ results' = [i \in DOMAIN new |-> NullStrategy]
  /\ UNCHANGED <<db, published, prevOk, prevFailed, calls, posted_urls, posted_count,
                 pairs, idx, finished, returned>>

RunOnce(feed, dry_run) ==
  /\ RunOnceFrom(feed, dry_run)
  /\ UNCHANGED pubVars

\* process_article: async with sem (enter).  A task keeps running when the
\* exception of another task has already left run_once: gather cancels nothing
Acquire(i) ==
  /\ pc \in {"gather", "raised"}
  /\ i \in DOMAIN task
  /\ task[i] = "start"
  /\ ~Locked(sem)
  /\ sem' = sem - 1
  /\ task' = [task EXCEPT ![i] = "in"]
  /\ UNCHANGED <<cycleVars, db, pc, results, finished, pairs, idx, posted_urls,
                 posted_count, returned, calls, published>>

\* process_article: the body under the semaphore, up to return or raise
Body(i) ==
  /\ pc \in {"gather", "raised"}
  /\ i \in DOMAIN task
  /\ task[i] = "in"
  /\ \E a \in {new_articles[i]} :
     \E strategy \in {determine_content_strategy(a.title, a.summary, UrlText(a.url), cfg.tone,
                                                  cfg.content_strategy, MaxLength(cfg),
                                                  cfg.enable_threads, cfg.enable_images,
                                                  AgentTexts)} :
        IF ImagePath(strategy, cfg)
        THEN IF "openai_image_model" \notin ConfigFields
             THEN \* AttributeError while the arguments of generate_news_image are built
                  /\ task' = [task EXCEPT ![i] = "raised"]
                  /\ UNCHANGED results
             ELSE \E success \in BOOLEAN :
                  /\ task' = [task EXCEPT ![i] = "done"]
                  /\ results' = [results EXCEPT ![i] =
                        [strategy EXCEPT !.use_image = success,
                                         !.image_prompt = IF success THEN ImageData ELSE @]]
        ELSE /\ task' = [task EXCEPT ![i] = "done"]
             /\ results' = [results EXCEPT ![i] = strategy]
  /\ sem' = sem + 1
  /\ finished' = Append(finished, i)
  /\ UNCHANGED <<cycleVars, db, pc, pairs, idx, posted_urls, posted_count,
                 returned, calls, published>>

\* run_once resumes after the await: pairs = await asyncio.gather(...)
GatherReturn ==
  /\ pc = "gather"
  /\ GatherDone(task)
  /\ pairs' = GatherPairs(new_articles, results, finished)
  /\ idx' = 1
  /\ pc' = "loop"
  /\ UNCHANGED <<cycleVars, db, sem, task, results, finished, posted_urls,
                 posted_count, returned, calls, published>>

\* the exception of a task leaves run_once through the await
GatherRaise ==
  /\ pc = "gather"
  /\ GatherRaised(task)
  /\ pc' = "raised"
  /\ UNCHANGED <<cycleVars, db, sem, task, results, finished, pairs, idx, posted_urls,
                 posted_count, returned, calls, published>>

\* the publish loop from the top of an iteration to the publish call,
\* or to the return of run_once
PublishLoop ==
  /\ pc = "loop"
  /\ IF idx > Len(pairs)
     THEN /\ pc' = "done"
          /\ returned' = posted_urls
          /\ UNCHANGED <<idx, calls>>
     ELSE IF pairs[idx].strategy.content_parts = <<>>
     THEN /\ idx' = idx + 1
          /\ UNCHANGED <<pc, returned, calls>>
     ELSE IF CapReached(posted_count, cfg.max_daily_posts)
     THEN /\ pc' = "done"
          /\ returned' = posted_urls
          /\ UNCHANGED <<idx, calls>>
     ELSE /\ calls' = Append(calls, [url |-> pairs[idx].article.url,
                                    fn |-> PublishFn(pairs[idx].strategy),
                                    status |-> "inflight"])
          /\ pc' = "publishing"
          /\ UNCHANGED <<idx, returned>>
  /\ UNCHANGED <<cycleVars, db, sem, task, results, finished, pairs, posted_urls,
                 posted_count, published>>

\* the publish call returns; the rest of the loop iteration.  The platform
\* fails the call at part failAt (0: at no part) in the way failKind, and
\* answers a v1.1 request in the way v1kind
PublishReturnWith(failAt, failKind, v1kind) ==
  /\ LET article == pairs[idx].article
         strategy == pairs[idx].strategy
         n == Len(strategy.content_parts)
         v1 == IF v1kind = "raise" THEN RespRaise ELSE RespOk(TweetId(cycle, idx, 1), "bot")
         result == Publish(api, strategy, cfg.dry_run,
                           Responses(cycle, idx, n, failAt, failKind), v1)
     IN /\ db' = MarkIfPosted(db, result, cfg.dry_run, article.url)
        /\ posted_urls' = CollectPosted(posted_urls, result, article.url)
        /\ posted_count' = IF result.ok THEN posted_count + 1 ELSE posted_count
        /\ calls' = [calls EXCEPT ![Len(calls)].status = IF result.ok THEN "ok" ELSE "failed"]
        /\ published' = IF result.ok /\ ~cfg.dry_run
                        THEN [published EXCEPT ![article.url] = @ + 1]
                        ELSE published
  /\ idx' = idx + 1
  /\ pc' = "loop"
  /\ UNCHANGED <<cfg, cycle, articles, new_articles, api, clients_created, db0, prevOk,
                 prevFailed, sem, task, results, finished, pairs, returned>>

PublishReturn ==
  /\ pc = "publishing"
  /\ \E failAt \in 0..Len(pairs[idx].strategy.content_parts),
        failKind \in {"raise", "nodata"}, v1kind \in {"raise", "ok"} :
       PublishReturnWith(failAt, failKind, v1kind)
  /\ UNCHANGED pubVars

\* the process that ran the cycle goes on after run_once (cmd_run returns,
\* the scheduler waits for the next post time): the locals of run_once are gone
Exit ==
  /\ pc \in {"done", "raised"}
  /\ pc' = "idle"
  /\ prevOk' = prevOk \cup (IF cfg.dry_run THEN {} ELSE CallUrls(calls, "ok"))
  /\ prevFailed' = CallUrls(calls, "failed")
  /\ articles' = <<>>
  /\ new_articles' = <<>>
  /\ api' = NoClients
  /\ clients_created' = FALSE
  /\ task' = <<>>
  /\ results' = <<>>
  /\ finished' = <<>>
  /\ pairs' = <<>>
  /\ idx' = 0
  /\ posted_urls' = <<>>
  /\ posted_count' = 0
  /\ returned' = <<>>
  /\ calls' = <<>>
  /\ sem' = SemaphoreLimit
  /\ db0' = db
  /\ UNCHANGED <<cfg, db, cycle, published, pubVars>>

Next ==
  \/ \E feed \in Feeds, dry_run \in BOOLEAN : RunOnce(feed, dry_run)
  \/ \E i \in 1..MaxArticles : Acquire(i)
  \/ \E i \in 1..MaxArticles : Body(i)
  \/ GatherReturn
  \/ GatherRaise
  \/ PublishLoop
  \/ PublishReturn
  \/ Exit

Spec == Init /\ [][Next]_vars

\* ------------------------------------- the publisher functions on their own
InitPublisher ==
  /\ AgentInit({CHOOSE c \in InitConfigs : TRUE})
  /\ pubcall \in PubCalls
  /\ pubresult = NullResult
  /\ pubdone = FALSE

PublisherResult(c) ==
  LET n == Len(c.thread_parts)
      resps == Responses(1, 1, n, c.failAt, c.failKind)
      v1 == IF c.v1kind = "raise" THEN RespRaise ELSE RespOk(TweetId(1, 1, 1), "bot")
  IN IF c.fn = "publish_thread" THEN publish_thread(c.clients, c.thread_parts, c.dry_run, resps)
     ELSE IF c.fn = "publish_long_post" THEN publish_long_post(c.clients, AgentTexts.long_content, c.dry_run, resps[1])
     ELSE IF c.fn = "publish_with_image"
     THEN publish_with_image(c.clients, AgentTexts.image_post, ImageData, c.dry_run, resps[1], v1)
     ELSE publish_tweet(c.clients, AgentTexts.short_post, c.dry_run, resps[1], v1)

CallPublisher ==
  /\ ~pubdone
  /\ pubresult' = PublisherResult(pubcall)
  /\ pubdone' = TRUE
  /\ UNCHANGED <<agentVars, pubcall>>

NextPublisher == CallPublisher

SpecPublisher == InitPublisher /\ [][NextPublisher]_vars

\* --------------------------------- the gather of run_once with many tasks
\* the configurations of the concurrency runs: the cap and the thread flag are
\* not read before the publish loop
ConcConfigs ==
  {c \in InitConfigs : c.max_daily_posts = MaxDailyPosts /\ c.enable_threads}

\* run_once has reached the await of asyncio.gather with n new articles
InitConc ==
  /\ \E n \in 1..NumTasks :
       /\ articles = [i \in 1..n |-> Article(i, BigTitle, BigSummary)]
       /\ new_articles = articles
       /\ task = [i \in 1..n |-> "start"]
       /\ results = [i \in 1..n |-> NullStrategy]
  /\ cfg \in ConcConfigs
  /\ db = ensure_db({})
  /\ cycle = 1
  /\ pc = "gather"
  /\ api = PrepareClient(cfg.dry_run)
  /\ clients_created = ~cfg.dry_run
  /\ sem = SemaphoreLimit
  /\ finished = <<>>
  /\ pairs = <<>>
  /\ idx = 0
  /\ posted_urls = <<>>
  /\ posted_count = 0
  /\ returned = <<>>
  /\ calls = <<>>
  /\ db0 = {}
  /\ published = [u \in URLS |-> 0]
  /\ prevOk = {}
  /\ prevFailed = {}
  /\ pubcall = NoPubCall
  /\ pubresult = NullResult
  /\ pubdone = FALSE

NextConc ==
  \/ \E i \in 1..NumTasks : Acquire(i)
  \/ \E i \in 1..NumTasks : Body(i)
  \/ GatherReturn
  \/ GatherRaise

\* the event loop runs every task that is ready to run
FairConc == \A i \in 1..NumTasks : WF_vars(Acquire(i)) /\ WF_vars(Body(i))

SpecConc == InitConc /\ [][NextConc]_vars /\ FairConc

\* ------------------------ the functions of content_strategy.py on their own
\* OpenAI announces revolutionary partnership with Anthropic on AI safety
ExampleTitle ==
  <<79, 112, 101, 110, 65, 73, 32, 97, 110, 110, 111, 117, 110, 99, 101, 115, 32, 114, 101, 118, 111, 108, 117, 116, 105, 111, 110, 97, 114, 121, 32, 112, 97, 114, 116, 110, 101, 114, 115, 104, 105, 112, 32, 119, 105, 116, 104, 32, 65, 110, 116, 104, 114, 111, 112, 105, 99, 32, 111, 110, 32, 65, 73, 32, 115, 97, 102, 101, 116, 121>>
\* Launch LAUNCH launch
RepeatTitle ==
  <<76, 97, 117, 110, 99, 104, 32, 76, 65, 85, 78, 67, 72, 32, 108, 97, 117, 110, 99, 104>>
\* Breakthrough launch partnership acquisition funding IPO regulation: OpenAI, Google, Microsoft
ManyTitle ==
  <<66, 114, 101, 97, 107, 116, 104, 114, 111, 117, 103, 104, 32, 108, 97, 117, 110, 99, 104, 32, 112, 97, 114, 116, 110, 101, 114, 115, 104, 105, 112, 32, 97, 99, 113, 117, 105, 115, 105, 116, 105, 111, 110, 32, 102, 117, 110, 100, 105, 110, 103, 32, 73, 80, 79, 32, 114, 101, 103, 117, 108, 97, 116, 105, 111, 110, 58, 32, 79, 112, 101, 110, 65, 73, 44, 32, 71, 111, 111, 103, 108, 101, 44, 32, 77, 105, 99, 114, 111, 115, 111, 102, 116>>
\* launch IPO funding
KeyContent ==
  <<108, 97, 117, 110, 99, 104, 32, 73, 80, 79, 32, 102, 117, 110, 100, 105, 110, 103>>
\* The lab announced a new model today. It is small! Investors plan to fund the next round soon? ok.
PointsContent ==
  <<84, 104, 101, 32, 108, 97, 98, 32, 97, 110, 110, 111, 117, 110, 99, 101, 100, 32, 97, 32, 110, 101, 119, 32, 109, 111, 100, 101, 108, 32, 116, 111, 100, 97, 121, 46, 32, 73, 116, 32, 105, 115, 32, 115, 109, 97, 108, 108, 33, 32, 73, 110, 118, 101, 115, 116, 111, 114, 115, 32, 112, 108, 97, 110, 32, 116, 111, 32, 102, 117, 110, 100, 32, 116, 104, 101, 32, 110, 101, 120, 116, 32, 114, 111, 117, 110, 100, 32, 115, 111, 111, 110, 63, 32, 111, 107, 46>>

\* a content of n one-letter words
Words(n) == [i \in 1..(2 * n - 1) |-> IF i % 2 = 1 THEN 119 ELSE 32]

\* the next binary64 value above x
Above(x) == <<x[1], x[2] + Ulp(x[1])>>

\* the next binary64 value below x
Below(x) == <<x[1], x[2] - Ulp(x[1])>>

\* scores in [0.0, 1.0]: the sixteenths, the thresholds and their neighbours
ScoreSamples ==
  {<<k * 8388608, 0>> : k \in 0..16}
    \cup UNION {{Below(t), t, Above(t)} : t \in {ThreadThreshold, LongThreshold, ImageThreshold}}

\* a title of n characters, each different from the others
TitleOf(n) == [i \in 1..n |-> 64 + i]

AutoCalls ==
  [fn : {"_auto_determine_type"}, importance_score : ScoreSamples,
   enable_threads : BOOLEAN, enable_images : BOOLEAN]

ScoreCalls ==
  [fn : {"_calculate_importance_score"},
   title : {<<>>, PlainTitle, BigTitle, ExampleTitle, RepeatTitle, ManyTitle},
   content : {<<>>, BigSummary, KeyContent, Words(200), Words(201),
              Words(201) \o <<32>> \o KeyContent}]

DetermineCalls ==
  [fn : {"determine_content_strategy"},
   title : {PlainTitle, BigTitle, ExampleTitle}, content : {<<>>, BigSummary},
   url : {UrlText(1)}, tone : {DefaultTone},
   config_strategy : {"auto", "short", "long", "thread", "image", "video"},
   max_length : {ShortPostLimit, DefaultMaxPostLength},
   enable_threads : BOOLEAN, enable_images : BOOLEAN]

ThreadCalls ==
  [fn : {"_create_thread_strategy"},
   title : {TitleOf(n) : n \in {0, 1, 49, 50, 51, 60}} \cup {BigTitle, ExampleTitle},
   content : {<<>>, PointsContent}, url : {UrlText(1)}, tone : {DefaultTone},
   importance_score : {FloatZero, ScoreCap},
   max_length : {-5, 0, 2, 3, 20, ShortPostLimit, DefaultMaxPostLength}]

LongCalls ==
  [fn : {"_create_long_post_strategy"}, title : {PlainTitle}, content : {<<>>},
   url : {UrlText(1)}, tone : {DefaultTone},
   max_length : (-MaxTextLen)..(MaxTextLen + 1),
   long_content : {TemplateText(n) : n \in 0..MaxTextLen}]

\* The market stayed calm in region
PlainSentence ==
  <<84, 104, 101, 32, 109, 97, 114, 107, 101, 116, 32, 115, 116, 97, 121, 101, 100, 32, 99, 97, 108, 109, 32, 105, 110, 32, 114, 101, 103, 105, 111, 110, 32>>
\* The lab announced model number
VerbSentence ==
  <<84, 104, 101, 32, 108, 97, 98, 32, 97, 110, 110, 111, 117, 110, 99, 101, 100, 32, 109, 111, 100, 101, 108, 32, 110, 117, 109, 98, 101, 114, 32>>

RECURSIVE ContentOf(_, _)
\* a content of one sentence per element of kinds, from the i-th on: a
\* sentence with an action verb where kinds[i] is TRUE, each ending with
\* its number and a full stop
ContentOf(kinds, i) ==
  IF i > Len(kinds) THEN <<>>
  ELSE (IF kinds[i] THEN VerbSentence ELSE PlainSentence)
         \o IntStr(i) \o <<46, 32>> \o ContentOf(kinds, i + 1)

KeyPointCalls ==
  [fn : {"_extract_key_points"},
   content : {ContentOf(kinds, 1) : kinds \in UNION {[1..n -> BOOLEAN] : n \in 0..4}}
               \cup {PointsContent}]

StrategyCalls ==
  AutoCalls \cup ScoreCalls \cup DetermineCalls \cup ThreadCalls \cup LongCalls
    \cup KeyPointCalls

InitStrategy ==
  /\ AgentInit({CHOOSE c \in InitConfigs : TRUE})
  /\ pubcall \in StrategyCalls
  /\ pubresult = NullResult
  /\ pubdone = FALSE

\* the call of pubcall.fn returns
Returns(fn) ==
  /\ ~pubdone
  /\ pubcall.fn = fn
  /\ pubdone' = TRUE
  /\ UNCHANGED <<agentVars, pubcall>>

CallAutoType ==
  /\ Returns("_auto_determine_type")
  /\ pubresult' = auto_determine_type(pubcall.importance_score, pubcall.enable_threads,
                                      pubcall.enable_images)

CallScore ==
  /\ Returns("_calculate_importance_score")
  /\ pubresult' = calculate_importance_score(pubcall.title, pubcall.content)

CallDetermine ==
  /\ Returns("determine_content_strategy")
  /\ pubresult' = determine_content_strategy(pubcall.title, pubcall.content, pubcall.url,
                                             pubcall.tone, pubcall.config_strategy,
                                             pubcall.max_length, pubcall.enable_threads,
                                             pubcall.enable_images, AgentTexts)

CallThread ==
  /\ Returns("_create_thread_strategy")
  /\ pubresult' = create_thread_strategy(pubcall.title, pubcall.content, pubcall.url,
                                         pubcall.tone, pubcall.importance_score,
                                         pubcall.max_length)

CallLong ==
  /\ Returns("_create_long_post_strategy")
  /\ pubresult' = create_long_post_strategy(pubcall.title, pubcall.content, pubcall.url,
                                            pubcall.tone, pubcall.max_length,
                                            pubcall.long_content)

CallKeyPoints ==
  /\ Returns("_extract_key_points")
  /\ pubresult' = extract_key_points(pubcall.content)

NextStrategy ==
  CallAutoType \/ CallScore \/ CallDetermine \/ CallThread \/ CallLong \/ CallKeyPoints

SpecStrategy == InitStrategy /\ [][NextStrategy]_vars

\* ------------------------------- the functions of storage.py on their own
\* the tweet_id values written: None and the ids of created posts
StoreIds == NoneId..NumTweetIds

\* what a call of a storage function leaves alone
storeRest == <<cfg, cycle, pc, articles, new_articles, api, clients_created, sem, task,
               results, finished, pairs, idx, posted_urls, posted_count, returned, calls,
               published, prevOk, prevFailed>>

InitStore ==
  /\ AgentInit({CHOOSE c \in InitConfigs : TRUE})
  /\ pubcall = NoPubCall
  /\ pubresult = NullResult
  /\ pubdone = FALSE

\* db0 keeps the table as it was before the call
CallEnsureDb ==
  /\ db' = ensure_db(db)
  /\ db0' = db
  /\ pubcall' = [fn |-> "ensure_db", url |-> 0, tweet_id |-> NoneId]
  /\ pubresult' = FALSE
  /\ pubdone' = TRUE
  /\ UNCHANGED storeRest

CallWasPosted(url) ==
  /\ db' = db
  /\ db0' = db
  /\ pubcall' = [fn |-> "was_posted", url |-> url, tweet_id |-> NoneId]
  /\ pubresult' = was_posted(db, url)
  /\ pubdone' = TRUE
  /\ UNCHANGED storeRest

CallMarkPosted(url, tweet_id) ==
  /\ db' = mark_posted(db, url, tweet_id)
  /\ db0' = db
  /\ pubcall' = [fn |-> "mark_posted", url |-> url, tweet_id |-> tweet_id]
  /\ pubresult' = FALSE
  /\ pubdone' = TRUE
  /\ UNCHANGED storeRest

NextStore ==
  \/ CallEnsureDb
  \/ \E url \in URLS : CallWasPosted(url)
  \/ \E url \in URLS, tweet_id \in StoreIds : CallMarkPosted(url, tweet_id)

SpecStore == InitStore /\ [][NextStore]_vars

\* ------------------------------ one cycle of run_once on the entries fetched
\* entries of the feeds: two with links that differ in white space only, one
\* for another url and with a long summary, one without link
FeedEntries ==
  {Entry(UrlText(1), PlainTitle, <<>>),
   Entry(UrlText(1) \o <<32>>, BigTitle, BigSummary),
   Entry(<<10>> \o UrlText(2), BigTitle, LongSummary),
   Entry(<<>>, PlainTitle, <<>>)}

RawFeeds == UNION {[1..n -> FeedEntries] : n \in 0..(MaxArticles + 1)}

\* configurations with which every path of process_article is taken, with
\* and without the premium length budget
FeedConfigs ==
  {c \in Configs : /\ c.dry_run
                   /\ c.max_daily_posts = MaxDailyPosts
                   /\ c.enable_threads /\ c.enable_images /\ c.openai_api_key}

InitFeed ==
  /\ AgentInit(FeedConfigs)
  /\ pubcall = NoPubCall
  /\ pubresult = NullResult
  /\ pubdone = FALSE

\* run_once on the entries the feeds deliver; pubcall keeps the entries
RunOnceFeed(entries, dry_run) ==
  /\ RunOnceFrom(Collected(entries, 1), dry_run)
  /\ pubcall' = [fn |-> "collect_rss_articles", feed |-> entries]
  /\ UNCHANGED <<pubresult, pubdone>>

NextFeed ==
  \/ \E entries \in RawFeeds, dry_run \in BOOLEAN : RunOnceFeed(entries, dry_run)
  \/ \E i \in 1..(MaxArticles + 1) : Acquire(i)
  \/ \E i \in 1..(MaxArticles + 1) : Body(i)
  \/ GatherReturn
  \/ GatherRaise
  \/ PublishLoop
  \/ PublishReturn

SpecFeed == InitFeed /\ [][NextFeed]_vars

\* --------------------------- run_once cycles and the posts on the platform
\* non-dry-run cycles; pubresult holds the posts the platform has created for
\* thread segments: the article, the position of the segment, the tweet id
RetryConfigs ==
  {c \in InitConfigs : /\ c.content_strategy \in {"auto", "thread"}
                       /\ c.enable_threads /\ ~c.enable_images
                       /\ c.max_daily_posts = MaxDailyPosts}

InitRetry ==
  /\ AgentInit(RetryConfigs)
  /\ pubcall = NoPubCall
  /\ pubresult = {}
  /\ pubdone = FALSE

\* the requests of a publish_thread call that the platform answered with an id
ThreadPosts(url, strategy, resps) ==
  With(publish_thread(api, strategy.content_parts, cfg.dry_run, resps), LAMBDA result :
    {[url |-> url, part |-> k, id |-> resps[k].id] :
       k \in {j \in 1..Len(result.api_calls) : resps[j].kind = "ok"}})

PublishReturnRetry ==
  /\ pc = "publishing"
  /\ \E failAt \in 0..Len(pairs[idx].strategy.content_parts),
        failKind \in {"raise", "nodata"}, v1kind \in {"raise", "ok"} :
       /\ PublishReturnWith(failAt, failKind, v1kind)
       /\ pubresult' =
            IF calls[Len(calls)].fn = "publish_thread"
            THEN pubresult \cup
                 ThreadPosts(pairs[idx].article.url, pairs[idx].strategy,
                             Responses(cycle, idx, Len(pairs[idx].strategy.content_parts),
                                       failAt, failKind))
            ELSE pubresult
  /\ UNCHANGED <<pubcall, pubdone>>

NextRetry ==
  \/ \E feed \in Feeds : RunOnce(feed, FALSE)
  \/ \E i \in 1..MaxArticles : Acquire(i)
  \/ \E i \in 1..MaxArticles : Body(i)
  \/ GatherReturn
  \/ PublishLoop
  \/ PublishReturnRetry
  \/ Exit

SpecRetry == InitRetry /\ [][NextRetry]_vars

TypeOK ==
  /\ cfg \in Configs
  /\ pc \in {"idle", "gather", "loop", "publishing", "done", "raised"}
  /\ cycle \in 0..MaxCycles
  /\ sem \in 0..SemaphoreLimit
  /\ posted_count \in 0..MaxArticles

\* ------------------------------------------------------------ properties
CallsWith(status) == {i \in DOMAIN calls : calls[i].status = status}
CalledUrls == {calls[i].url : i \in DOMAIN calls}
RenderedUrls == {new_articles[i].url : i \in {j \in DOMAIN task : task[j] \in {"done", "raised"}}}
Position(arts, url) == CHOOSE k \in DOMAIN arts : arts[k].url = url
GainedUrls == StoredUrls(db) \ StoredUrls(db0)

\* C1: over successive run_once cycles no url is published successfully with
\* dry_run=false more than once, and no publish call is made for a url that
\* an earlier cycle published successfully with dry_run=false.
C1_PublishedAtMostOnce ==
  /\ \A u \in URLS : published[u] <= 1
  /\ CalledUrls \cap prevOk = {}

\* a second non-dry run over the urls the first run published: all filtered
C1_Witness ==
  /\ cycle = 2
  /\ pc = "done"
  /\ ~cfg.dry_run
  /\ prevOk # {}
  /\ Urls(articles) = prevOk
  /\ \A u \in prevOk : published[u] = 1 /\ u \notin Urls(new_articles)

\* every new article of the cycle has been rendered, with non-empty content
AllRendered ==
  /\ DOMAIN task = DOMAIN new_articles
  /\ \A i \in DOMAIN task : task[i] = "done" /\ results[i].content_parts # <<>>

\* C2 as stated: at the end of a cycle with max_daily_posts = N and M >= N new
\* articles, all rendered with non-empty content, exactly N publish calls
\* were made and the store gained exactly N records.
C2_ExactlyCapAlways ==
  (/\ pc = "done"
   /\ AllRendered
   /\ Len(new_articles) >= cfg.max_daily_posts)
    => /\ Len(calls) = cfg.max_daily_posts
       /\ Cardinality(GainedUrls) = cfg.max_daily_posts

\* C2 amended: at the end of a cycle with max_daily_posts = N and M >= N new
\* articles, all rendered with non-empty content, in which every publish call
\* returned ok, exactly N publish calls were made; the store gained exactly N
\* records with dry_run=false and none with dry_run=true.
C2_ExactlyCapWhenAllOk ==
  (/\ pc = "done"
   /\ AllRendered
   /\ Len(new_articles) >= cfg.max_daily_posts
   /\ CallsWith("ok") = DOMAIN calls)
    => /\ Len(calls) = cfg.max_daily_posts
       /\ Cardinality(GainedUrls) = IF cfg.dry_run THEN 0 ELSE cfg.max_daily_posts

\* more new articles than the cap, all calls ok, not a dry run
C2_Witness ==
  /\ pc = "done"
  /\ AllRendered
  /\ ~cfg.dry_run
  /\ cfg.max_daily_posts >= 1
  /\ Len(new_articles) > cfg.max_daily_posts
  /\ CallsWith("ok") = DOMAIN calls
  /\ Len(calls) = cfg.max_daily_posts
  /\ Cardinality(GainedUrls) = cfg.max_daily_posts

\* C3: in a cycle the successful publishes never exceed max_daily_posts, every
\* publish call is made while fewer than max_daily_posts calls of the cycle
\* have succeeded, and max_daily_posts = 0 gives no publish call.
C3_CapNeverExceeded ==
  /\ posted_count = Cardinality(CallsWith("ok"))
  /\ posted_count <= cfg.max_daily_posts
  /\ \A i \in DOMAIN calls :
       Cardinality({j \in CallsWith("ok") : j < i}) < cfg.max_daily_posts
  /\ (cfg.max_daily_posts <= 0 => calls = <<>>)

\* the loop broke at the cap with an article left over
C3_Witness ==
  /\ pc = "done"
  /\ cfg.max_daily_posts >= 1
  /\ posted_count = cfg.max_daily_posts
  /\ idx <= Len(pairs)

\* C4: a url whose publish call returned ok=false is not in the store, is not
\* counted, is not in the returned list; the loop ends only at the end of
\* pairs or at the cap; and a url that failed in the previous cycle is a new
\* article of this cycle whenever the collector returns it again.
C4_FailureNotRecorded ==
  /\ \A i \in CallsWith("failed") :
       /\ calls[i].url \notin StoredUrls(db)
       /\ calls[i].url \notin Range(posted_urls)
       /\ calls[i].url \notin Range(returned)
  /\ posted_count = Len(calls) - Cardinality(CallsWith("failed")) - Cardinality(CallsWith("inflight"))
  /\ (pc = "done" /\ pairs # <<>>) =>
       (idx > Len(pairs) \/ posted_count >= cfg.max_daily_posts)
  /\ \A u \in prevFailed : u \in Urls(articles) => u \in Urls(new_articles)

\* a url failed in the previous cycle, is retried and fails again, and the
\* loop goes on to publish the next article
C4_Witness ==
  /\ cycle = 2
  /\ Len(calls) = 2
  /\ calls[1].status = "failed"
  /\ calls[1].url \in prevFailed
  /\ calls[2].status = "ok"
  /\ pc = "done"
  /\ returned = <<calls[2].url>>

\* C5: during and after a cycle with dry_run=true the store is what it was
\* when the cycle started.
C5_DryRunKeepsStore == (cfg.dry_run /\ pc # "idle") => db = db0

\* a dry run over a non-empty store in which a publish call succeeded
C5_Witness ==
  /\ cfg.dry_run
  /\ pc = "done"
  /\ db0 # {}
  /\ CallsWith("ok") # {}
  /\ db = db0

\* C6: a direct call of any of the four publisher functions with dry_run=true
\* sends no request to the platform clients and returns ok=true, id=None,
\* url=None, also with clients=None.
C6_DryRunPublishers ==
  (pubdone /\ pubcall.dry_run)
    => /\ pubresult.ok
       /\ pubresult.id = NoneId
       /\ pubresult.url = UrlNone
       /\ pubresult.api_calls = <<>>

\* publish_thread called with dry_run=true and clients=None over four parts
C6_Witness ==
  /\ pubdone
  /\ pubcall.dry_run
  /\ pubcall.clients = NoClients
  /\ pubcall.fn = "publish_thread"
  /\ Len(pubcall.thread_parts) = Len(SampleThread)
  /\ pubresult.ok

\* C7: a url with a record in the store when run_once starts is not among the
\* new articles of the cycle, is not rendered and is not published.
C7_StoredUrlExcluded ==
  \A u \in StoredUrls(db0) :
    /\ u \notin Urls(new_articles)
    /\ u \notin RenderedUrls
    /\ u \notin CalledUrls

\* the collector returns a stored url next to a new one, which is published
C7_Witness ==
  /\ pc = "done"
  /\ \E u \in Urls(articles) : u \in StoredUrls(db0)
  /\ CalledUrls # {}
  /\ Len(new_articles) < Len(articles)

\* C8: when no collected article survives the dedupe filter run_once has
\* returned the empty list at once: no client, no task, no publish call, no
\* change of the store.
C8_NothingNewReturnsEmpty ==
  (pc # "idle" /\ new_articles = <<>>)
    => /\ pc = "done"
       /\ returned = <<>>
       /\ ~clients_created
       /\ api = NoClients
       /\ task = <<>>
       /\ calls = <<>>
       /\ db = db0

\* a non-dry run whose collected articles are all in the store already
C8_Witness ==
  /\ ~cfg.dry_run
  /\ articles # <<>>
  /\ new_articles = <<>>
  /\ pc = "done"

\* C9: the publish calls of a cycle are in the order the collector returned
\* the articles.
C9_PublishInCollectedOrder ==
  \A i, j \in DOMAIN calls :
    i < j => Position(articles, calls[i].url) < Position(articles, calls[j].url)

\* the second task finished first, and both articles were published
C9_Witness ==
  /\ finished = <<2, 1>>
  /\ Len(calls) = 2
  /\ pc = "done"

\* C10: a publish call is made only after every process_article task of the
\* cycle has returned, and at most one publish call is in flight.
C10_PublishAfterRendering ==
  /\ calls # <<>> => \A i \in DOMAIN task : task[i] = "done"
  /\ Cardinality(CallsWith("inflight")) <= 1

\* the second publish call of a cycle in flight, after two tasks
C10_Witness ==
  /\ pc = "publishing"
  /\ Len(task) = 2
  /\ Len(calls) = 2
  /\ CallsWith("inflight") = {2}

\* C11: at every point of a run_once cycle at most 4 process_article bodies
\* are inside the semaphore-guarded section, for any number of new articles,
\* and every process_article task eventually acquires the semaphore and ends
InSection == {i \in DOMAIN task : task[i] = "in"}

C11_AtMostFourInside ==
  /\ Cardinality(InSection) <= 4
  /\ sem = SemaphoreLimit - Cardinality(InSection)

C11_AllTasksEnd == \A i \in DOMAIN task : task[i] \in {"done", "raised"}

C11_BoundedConcurrency == []C11_AtMostFourInside /\ <>C11_AllTasksEnd

\* four bodies are inside the section and a fifth task waits for a slot
C11_Witness ==
  /\ Len(task) >= 5
  /\ Cardinality(InSection) = 4
  /\ \E i \in DOMAIN task : task[i] = "start"
  /\ Locked(sem)

\* the platform answers of the direct call, and whether its primary API path
\* failed: a v2 call (for publish_with_image a v1.1 call) raised or, where
\* the function tests for it, returned no tweet id
PubResponses == Responses(1, 1, Len(pubcall.thread_parts), pubcall.failAt, pubcall.failKind)

PrimaryFailed ==
  IF pubcall.fn = "publish_thread"
  THEN \E i \in 1..Len(pubcall.thread_parts) : PubResponses[i].kind # "ok"
  ELSE IF pubcall.fn = "publish_with_image"
  THEN PubResponses[1].kind = "raise" \/ pubcall.v1kind = "raise"
  ELSE PubResponses[1].kind # "ok"

\* the requests sent on the other API version than the primary one
FallbackAttempts ==
  LET primary == IF pubcall.fn = "publish_with_image"
                 THEN {"v1.media_upload", "v1.update_status"}
                 ELSE {"v2.create_tweet"}
  IN Cardinality({i \in DOMAIN pubresult.api_calls : pubresult.api_calls[i].api \notin primary})

LiveCallFailedPrimary ==
  pubdone /\ ~pubcall.dry_run /\ pubcall.clients = XClients /\ PrimaryFailed

C13_NoExceptionLeavesRunOnce == pc # "raised"

\* C14: run_once returns exactly the urls of the articles whose publish call
\* returned ok=true in this cycle, in publish order, with no duplicates; with
\* dry_run=false every returned url has a Dedup Store record at the return
OkUrlsInCallOrder ==
  LET ok == SelectSeq(calls, LAMBDA c : c.status = "ok")
  IN [i \in DOMAIN ok |-> ok[i].url]

C14_ReturnsOkUrls ==
  pc = "done" =>
    /\ returned = OkUrlsInCallOrder
    /\ \A i, j \in DOMAIN returned : returned[i] = returned[j] => i = j
    /\ ~cfg.dry_run => Range(returned) \subseteq StoredUrls(db)

\* a live cycle returned after a failed and a successful publish call
C14_Witness ==
  /\ pc = "done"
  /\ ~cfg.dry_run
  /\ Len(calls) = 2
  /\ calls[1].status = "failed"
  /\ calls[2].status = "ok"
  /\ returned = <<calls[2].url>>

Returned(fn) == pubdone /\ pubcall.fn = fn

ContentTypes == {"thread", "long", "image", "short"}

\* the tier order short < image < long < thread
Tier(content_type) ==
  CASE content_type = "short" -> 0
    [] content_type = "image" -> 1
    [] content_type = "long" -> 2
    [] content_type = "thread" -> 3

\* C15: for every score s in [0,1], _auto_determine_type returns exactly one
\* of thread, long, image, short, and with the flags fixed the type of a
\* score is never of a lower tier than the type of a smaller score.
C15_AutoTypeMonotonic ==
  Returned("_auto_determine_type") =>
    /\ pubresult \in ContentTypes
    /\ \A s1 \in ScoreSamples :
         ~FloatGt(s1, pubcall.importance_score) =>
           Tier(auto_determine_type(s1, pubcall.enable_threads, pubcall.enable_images))
             <= Tier(pubresult)

\* a score that yields long, between a smaller one that yields short and a
\* larger one that yields thread
C15_Witness ==
  /\ Returned("_auto_determine_type")
  /\ pubcall.enable_threads /\ pubcall.enable_images
  /\ pubresult = "long"
  /\ \E s1, s2 \in ScoreSamples :
       /\ FloatGt(pubcall.importance_score, s1) /\ FloatGt(s2, pubcall.importance_score)
       /\ auto_determine_type(s1, TRUE, TRUE) = "short"
       /\ auto_determine_type(s2, TRUE, TRUE) = "thread"

\* the type the claim names for an explicit strategy
ExplicitType(config_strategy, enable_threads, enable_images) ==
  IF config_strategy = "thread" /\ enable_threads THEN "thread"
  ELSE IF config_strategy = "long" THEN "long"
  ELSE IF config_strategy = "image" /\ enable_images THEN "image"
  ELSE "short"

\* C16: when config_strategy is not "auto", determine_content_strategy
\* selects the type without the score: thread only for "thread" with threads
\* enabled, image only for "image" with images enabled, long for "long"
\* whatever the flags, and short in every other case.
C16_ExplicitStrategy ==
  (Returned("determine_content_strategy") /\ pubcall.config_strategy # "auto") =>
    pubresult.content_type =
      ExplicitType(pubcall.config_strategy, pubcall.enable_threads, pubcall.enable_images)

\* an article that auto selection makes a thread is rendered short because
\* the configured strategy says so
C16_Witness ==
  /\ Returned("determine_content_strategy")
  /\ pubcall.config_strategy = "video"
  /\ pubcall.enable_threads
  /\ auto_determine_type(calculate_importance_score(pubcall.title, pubcall.content),
                         TRUE, pubcall.enable_images) = "thread"
  /\ pubresult.content_type = "short"

\* the words of the list that occur, case-insensitively, in title + " " + content
Occurring(words, title, content) ==
  {words[i] : i \in {j \in DOMAIN words :
                       Contains(Lower(title \o <<32>> \o content), Lower(words[j]))}}

\* 100 times the value the claim gives for the score
Hundredths(title, content) ==
  Min(100, 20 * (IF WordCount(title) > 8 THEN 1 ELSE 0)
             + 25 * (IF WordCount(content) > 200 THEN 1 ELSE 0)
             + 15 * Cardinality(Occurring(high_impact_keywords, title, content))
             + 8 * Cardinality(Occurring(major_entities, title, content)))

\* h / 100 in units of 2^-56, rounded down, as a float pair
Exact(h) ==
  LET r == (28 * h) % 100
  IN <<1342177 * h + (28 * h) \div 100, 5368709 * r + (12 * r) \div 100>>

\* x and y differ by at most the given number of units of 2^-56
FloatNear(x, y, units) ==
  /\ x[1] - y[1] \in -1..1
  /\ (x[1] - y[1]) * FloatBase + (x[2] - y[2]) \in (-units)..units

\* no binary64 value is nearer to h / 100 than x: with d the units of 2^-56
\* from Exact(h) to x and f the hundredths of a unit that Exact(h) dropped,
\* |d - f / 100| is at most half an ulp
Nearest(x, h) ==
  /\ FloatNear(x, Exact(h), 256)
  /\ LET d == (x[1] - Exact(h)[1]) * FloatBase + (x[2] - Exact(h)[2])
         f == (12 * ((28 * h) % 100)) % 100
     IN 100 * d - f \in (-50 * Ulp(x[1]))..(50 * Ulp(x[1]))

\* C17 as stated: the score is in [0.0, 1.0] and is the binary64 value
\* nearest to min(1.0, 0.2*[title > 8 words] + 0.25*[content > 200 words]
\* + 0.15*keywords + 0.08*entities), each keyword or entity counted once.
C17_ScoreExact ==
  Returned("_calculate_importance_score") =>
    /\ ~FloatGt(pubresult, ScoreCap)
    /\ ~FloatGt(FloatZero, pubresult)
    /\ Nearest(pubresult, Hundredths(pubcall.title, pubcall.content))

\* C17: the score is in [0.0, 1.0] and equals min(1.0, 0.2*[title > 8 words]
\* + 0.25*[content > 200 words] + 0.15*keywords + 0.08*entities) up to the
\* rounding of the binary64 additions (within 2^-48), each keyword or entity
\* counted once however often it occurs.
C17_ScoreWithinRounding ==
  Returned("_calculate_importance_score") =>
    /\ ~FloatGt(pubresult, ScoreCap)
    /\ ~FloatGt(FloatZero, pubresult)
    /\ FloatNear(pubresult, Exact(Hundredths(pubcall.title, pubcall.content)), 256)

\* a keyword three times in the title, two more in a content of more than 200
\* words: 0.25 + 3 * 0.15, which the additions round to 0.7000000000000001
C17_Witness ==
  /\ Returned("_calculate_importance_score")
  /\ pubcall.title = RepeatTitle
  /\ WordCount(pubcall.content) > 200
  /\ Hundredths(pubcall.title, pubcall.content) = 70
  /\ FloatGt(pubresult, ThreadThreshold)

ExampleCall(fn) == Returned(fn) /\ pubcall.title = ExampleTitle /\ pubcall.content = <<>>

\* 0.2 + 0.15 + 0.15 + 0.08 + 0.08
ExampleScore ==
  FloatAdd(FloatAdd(FloatAdd(FloatAdd(TitleWeight, KeywordWeight), KeywordWeight),
                    EntityWeight), EntityWeight)

\* C18 as stated: the example title with empty content scores
\* 0.2+0.15+0.15+0.08+0.08 and auto selection with threads enabled yields
\* the thread strategy.
C18_ExampleIsThread ==
  /\ ExampleCall("_calculate_importance_score") => pubresult = ExampleScore
  /\ (/\ ExampleCall("determine_content_strategy")
      /\ pubcall.config_strategy = "auto"
      /\ pubcall.enable_threads) => pubresult.content_type = "thread"

\* C18: the example title with empty content scores 0.2+0.15+0.15+0.08+0.08,
\* about 0.66, which is not above 0.7: auto selection with threads enabled
\* yields the long strategy.
C18_ExampleIsLong ==
  /\ ExampleCall("_calculate_importance_score") =>
       /\ pubresult = ExampleScore
       /\ FloatNear(pubresult, Exact(66), 256)
  /\ (/\ ExampleCall("determine_content_strategy")
      /\ pubcall.config_strategy = "auto"
      /\ pubcall.enable_threads) => pubresult.content_type = "long"

C18_Witness ==
  /\ ExampleCall("determine_content_strategy")
  /\ pubcall.config_strategy = "auto"
  /\ pubcall.enable_threads
  /\ pubresult.content_type = "long"

\* s.endswith(suffix)
EndsWith(s, suffix) ==
  /\ Len(s) >= Len(suffix)
  /\ SubSeq(s, Len(s) - Len(suffix) + 1, Len(s)) = suffix

\* the first 50 characters of the title
First50(title) == [i \in 1..Min(50, Len(title)) |-> title[i]]

\* C19: _create_thread_strategy returns exactly 4 parts; part 1 ends with
\* the thread suffix that holds the first 50 characters of the title, parts 2
\* and 3 end with "2/4" and "3/4", part 4 ends with "4/4", the link mark and
\* the url.
C19_ThreadRendering ==
  Returned("_create_thread_strategy") =>
    LET parts == pubresult.content_parts
    IN /\ Len(parts) = 4
       /\ EndsWith(parts[1], ThreadOn \o First50(pubcall.title) \o Ellipsis)
       /\ EndsWith(parts[2], <<50, 47, 52>>)
       /\ EndsWith(parts[3], <<51, 47, 52>>)
       /\ EndsWith(parts[4], <<52, 47, 52>> \o LinkMark \o pubcall.url)

\* a title of more than 50 characters and a max_length every part exceeds
C19_Witness ==
  /\ Returned("_create_thread_strategy")
  /\ Len(pubcall.title) > 50
  /\ pubcall.max_length = 3
  /\ \A i \in 1..4 : Len(pubresult.content_parts[i]) > pubcall.max_length
  /\ ~Contains(pubresult.content_parts[1], pubcall.title)

\* C20: for every integer max_length, the single content part returned by
\* _create_long_post_strategy has length <= max_length.
C20_LongFitsMaxLength ==
  Returned("_create_long_post_strategy") =>
    /\ Len(pubresult.content_parts) = 1
    /\ Len(pubresult.content_parts[1]) <= pubcall.max_length

RowsOf(table, url) == {r \in table : r.url = url}

\* C21: after any sequence of ensure_db, was_posted and mark_posted calls
\* each url has at most one record; mark_posted on a url already present
\* replaces its record, records of other urls are unchanged, was_posted and
\* ensure_db do not change the store, and a url once recorded stays recorded.
C21_StoreInvariant ==
  /\ \A u \in URLS : Cardinality(RowsOf(db, u)) <= 1
  /\ Returned("mark_posted") =>
       /\ RowsOf(db, pubcall.url) = {PostedRecord(pubcall.url, pubcall.tweet_id)}
       /\ \A u \in URLS \ {pubcall.url} : RowsOf(db, u) = RowsOf(db0, u)
  /\ Returned("was_posted") =>
       /\ db = db0
       /\ pubresult = (RowsOf(db0, pubcall.url) # {})
  /\ Returned("ensure_db") => db = db0
  /\ (pubdone /\ pubcall.fn \in {"mark_posted", "was_posted", "ensure_db"}) =>
       StoredUrls(db0) \subseteq StoredUrls(db)

\* mark_posted of a url that has a record with another tweet_id, while
\* another url has a record too
C21_Witness ==
  /\ Returned("mark_posted")
  /\ RowsOf(db0, pubcall.url) # {}
  /\ RowsOf(db0, pubcall.url) # RowsOf(db, pubcall.url)
  /\ \E u \in URLS \ {pubcall.url} : RowsOf(db, u) # {}

\* the entries of the fetch that have a link no earlier entry has, white
\* space at the ends of a link aside
FirstEntries(entries) ==
  {k \in DOMAIN entries :
     /\ entries[k].link # <<>>
     /\ \A j \in 1..(k - 1) : Strip(entries[j].link) # Strip(entries[k].link)}

HasActionVerb(sentence) ==
  \E w \in DOMAIN action_verbs : Contains(Lower(sentence), action_verbs[w])

\* the sentences of content of length strictly between 20 and 200
Qualifying(content) ==
  SelectSeq([k \in DOMAIN Sentences(content) |-> Strip(Sentences(content)[k])],
            LAMBDA s : Len(s) > 20 /\ Len(s) < 200)

\* C23: _extract_key_points returns at most 3 of the qualifying sentences,
\* and a qualifying sentence with an action verb is among them unless all
\* the returned key points have an action verb: it is preferred to earlier
\* qualifying sentences without one.
C23_ActionVerbsFirst ==
  Returned("_extract_key_points") =>
    /\ Len(pubresult) <= 3
    /\ Range(pubresult) \subseteq Range(Qualifying(pubcall.content))
    /\ \A q \in Range(Qualifying(pubcall.content)) :
         HasActionVerb(q) =>
           \/ q \in Range(pubresult)
           \/ \A r \in Range(pubresult) : HasActionVerb(r)

\* the content parts of the publish call that is being made
HandedParts == IF pc = "publishing" THEN pairs[idx].strategy.content_parts ELSE <<>>

\* the length budget of the cycle
Budget == IF cfg.use_premium_features THEN cfg.max_post_length ELSE 280

\* C24: every content part that run_once hands to a publish call has length
\* <= the cycle's length budget, for every strategy kind, each thread segment
\* with its appended suffix included.
C24_PartsWithinBudget ==
  \A k \in DOMAIN HandedParts : Len(HandedParts[k]) <= Budget


\* successful non-dry-run publishes of the first u urls over all cycles so far
RECURSIVE PublishedUpTo(_)
PublishedUpTo(u) == IF u = 0 THEN 0 ELSE published[u] + PublishedUpTo(u - 1)

\* C25: over all run_once cycles executed on the same day the total number of
\* successful publishes does not exceed max_daily_posts.
C25_DailyCapAcrossCycles == PublishedUpTo(NumUrls) <= cfg.max_daily_posts


\* C26: in auto mode the image strategy is unreachable: for every score and
\* every combination of enable_threads and enable_images _auto_determine_type
\* never returns "image", so with content_strategy = "auto"
\* determine_content_strategy only returns thread, long or short.
C26_AutoNeverImage ==
  /\ Returned("_auto_determine_type") => pubresult \in {"thread", "long", "short"}
  /\ (Returned("determine_content_strategy") /\ pubcall.config_strategy = "auto") =>
       /\ pubresult.content_type \in {"thread", "long", "short"}
       /\ ~pubresult.use_image

\* images are enabled and the score is above the image threshold, and the
\* long rule answers first
C26_Witness ==
  /\ Returned("_auto_determine_type")
  /\ pubcall.enable_images /\ ~pubcall.enable_threads
  /\ FloatGt(pubcall.importance_score, ImageThreshold)
  /\ pubresult = "long"


\* the strategy of the publish call that is being made
HandedStrategy == pairs[idx].strategy

\* C27: publish_with_image is invoked only with image bytes produced by a
\* successful image generation: when the generation was not run (no OpenAI API
\* key) or did not succeed, run_once publishes the article with publish_tweet
\* and never passes the textual image_prompt as image data.
C27_ImageBytesOnly ==
  (pc = "publishing" /\ calls[Len(calls)].fn = "publish_with_image") =>
    /\ cfg.openai_api_key
    /\ HandedStrategy.image_prompt = ImageData


\* C28: over any sequence of non-dry-run cycles each thread segment of a given
\* article is created on the platform at most once; when publish_thread
\* returned ok=false after some segments were created, the retry of the
\* article in the next cycle does not create those segments a second time.
C28_SegmentsCreatedOnce ==
  \A p, q \in pubresult : (p.url = q.url /\ p.part = q.part) => p.id = q.id


\* a direct call of fn with dry_run=false on a created client has returned
LiveReturned(fn) == Returned(fn) /\ ~pubcall.dry_run /\ pubcall.clients = XClients

\* the positions of the segments the platform does not answer with an id
FailingParts == {k \in 1..Len(pubcall.thread_parts) : PubResponses[k].kind # "ok"}

\* the number of requests publish_thread sends: up to the first failing segment
SentParts ==
  IF FailingParts = {} THEN Len(pubcall.thread_parts)
  ELSE CHOOSE k \in FailingParts : \A j \in FailingParts : k <= j

CallsTo(apiname) == {k \in DOMAIN pubresult.api_calls : pubresult.api_calls[k].api = apiname}

====
